---- MODULE Spec2Model ----
(***************************************************************************)
(* Model of the multi-strategy chunking engine of rag-setup                *)
(* (backend/services/chunking).  A text is a sequence of one-character     *)
(* strings; a page is a record [page_number, text]; a chunk is a record    *)
(* [text, metadata] where metadata is a function whose domain is a subset  *)
(* of {"page_numbers", "section"}.                                         *)
(***************************************************************************)
EXTENDS Integers, Sequences, FiniteSets, TLC

VARIABLES
    request,    \* the get_strategy() call: strategy_type, config, embedding_provider
                \* ("direct" when the strategy is constructed directly)
    strategy,   \* the strategy instance: its name and configuration fields
    text,       \* the text argument of chunk()
    pages,      \* the pages argument of chunk() (<<>> when absent or empty)
    pc,         \* position of the call: "ready", "loop", "locate", "awaiting",
                \* "done" (returned), "failed" (raised)
    page_map,   \* the page offset map built from pages
    start,      \* Character: the window start of the while loop
    final_chunks,          \* Recursive: the chunk texts still to be located
    current_search_start,  \* Recursive: the cursor of the offset recovery
    sentences,  \* Semantic: the sentences passed to the embedding provider
    embeddings, \* Semantic: the vectors the embedding provider returned
    chunks,     \* the chunk list built so far / returned
    spans,      \* history: the [start, end) span used for each emitted chunk
    calls,      \* history: the calls made on the embedding provider
    error,      \* the exception raised to the caller ("none" when none)
    other,      \* two callers on one instance: the locals of the suspended
                \* invocation of chunk() (NoOther when there is one caller)
    metrics,    \* /chunk: the metrics computed over the chunk list, one entry
                \* per computation
    db_files,   \* the files table, in insertion (created_at) order
    disk,       \* the paths that exist in the storage directory tree
    vectors,    \* the vector store: the metadata of each stored vector
    hist,       \* history: ids uploaded, stored after upload, deleted
    reply,      \* the outcome of the last file-management operation
    stack       \* Recursive: the active calls of _split_text, outermost first

vars == <<request, strategy, text, pages, pc, page_map, start, final_chunks,
          current_search_start, sentences, embeddings, chunks, spans, calls,
          error, other, metrics, db_files, disk, vectors, hist, reply, stack>>

\* what lies outside the strategies
fileVars == <<db_files, disk, vectors, hist, reply>>
envVars == <<metrics, fileVars, stack>>
inputVars == <<request, strategy, text, pages, other, envVars>>
NoOther == <<>>
NoHistory == [uploaded |-> {}, stored |-> {}, deleted |-> {}]
FilesInit ==
    /\ db_files = <<>>
    /\ disk = {}
    /\ vectors = <<>>
    /\ hist = NoHistory
    /\ reply = [op |-> "none"]
EnvInit == metrics = <<>> /\ FilesInit /\ stack = <<>>
recVars == <<final_chunks, current_search_start>>
semVars == <<sentences, embeddings, calls>>

\* ------------------------------------------------------------------ bounds
MaxChunkSize == 4
MaxOverlap == 5
MaxTextLen == 4
MaxPages == 2
MaxPageLen == 4
MaxExtraIter == 2
MaxRecLen == 5
MaxSemLen == 5
MaxParLen == 6
MaxMinChunkSize == 6
MaxSentLen == 5
MaxSentencesPerChunk == 2
MaxSentOverlap == 2
MaxHierLen == 5
MaxSplitLevel == 2
MaxApiLen == 3
MaxMetricChunks == 3
MaxMetricLen == 3
MaxFiles == 2
MaxVectors == 2
MaxStoreChunks == 1
MaxSplitLen == 4
MaxSplitChunkSize == 2
MaxSplitOverlap == 2
MaxStackDepth == 5

\* ------------------------------------------------------- python primitives
Min(a, b) == IF a < b THEN a ELSE b
Max(a, b) == IF a > b THEN a ELSE b

SeqsUpTo(S, n) == UNION {[1..k -> S] : k \in 0..n}

\* A slice index as python normalises it: negative counts from the end,
\* then clamped to [0, len].
PyIndex(i, len) == IF i < 0 THEN Max(0, len + i) ELSE Min(i, len)

\* s[i:j]
PySlice(s, i, j) == SubSeq(s, PyIndex(i, Len(s)) + 1, PyIndex(j, Len(s)))

\* str.find(sub, from): the least 0-based index >= from at which sub occurs
\* in s, or -1.
PyFind(s, sub, from) ==
    LET hits == {i \in from..(Len(s) - Len(sub)) :
                     SubSeq(s, i + 1, i + Len(sub)) = sub}
    IN  IF hits = {} THEN -1 ELSE CHOOSE i \in hits : \A j \in hits : i <= j

\* sub in s
Contains(s, sub) == PyFind(s, sub, 0) # -1

\* s.split(sep) for a non-empty sep: cut at the non-overlapping occurrences
\* of sep, left to right.
RECURSIVE PySplit(_, _)
PySplit(s, sep) ==
    LET i == PyFind(s, sep, 0)
    IN  IF i = -1 THEN <<s>>
        ELSE <<SubSeq(s, 1, i)>> \o PySplit(SubSeq(s, i + Len(sep) + 1, Len(s)), sep)

\* sep.join(parts)
RECURSIVE PyJoin(_, _)
PyJoin(sep, parts) ==
    IF parts = <<>> THEN <<>>
    ELSE IF Len(parts) = 1 THEN parts[1]
    ELSE parts[1] \o sep \o PyJoin(sep, Tail(parts))

EmptyTextNever(t) == FALSE

\* "if not text", the test that guards the early "return []"
EmptyText(t) == t = <<>>

Whitespace == {" ", "\n", "\t"}

\* bool(s.strip()): s holds a character that is not whitespace.
StripNonEmpty(s) == \E i \in 1..Len(s) : s[i] \notin Whitespace

NL == "\n"
PageSeparator == <<NL, NL>>

EmptyMeta == [k \in {} |-> <<>>]
PageMetaDefaultPage(chunk_pages) ==
    [page_numbers |-> IF chunk_pages = <<>> THEN <<1>> ELSE chunk_pages]

\* the metadata dict {"page_numbers": chunk_pages}
PageMeta(chunk_pages) == [page_numbers |-> chunk_pages]

\* "\n\n".join(p["text"] for p in pages)
RECURSIVE JoinPages(_)
JoinPages(ps) ==
    IF ps = <<>> THEN <<>>
    ELSE IF Len(ps) = 1 THEN ps[1].text
    ELSE ps[1].text \o PageSeparator \o JoinPages(Tail(ps))

\* ----------------------------------------------------------- page offset map
NextOffsetNoSep(i, n, page_end) == page_end

\* The offset of the page after page i of n: the separator (\n\n) is skipped
\* except after the last page.
NextOffset(i, n, page_end) == IF i < n THEN page_end + 2 ELSE page_end

\* The loop over enumerate(pages): i is the 1-based index of the next page.
RECURSIVE PageMapFrom(_, _, _)
PageMapFrom(ps, i, current_offset) ==
    IF i > Len(ps) THEN <<>>
    ELSE LET page_end == current_offset + Len(ps[i].text)
         IN  <<[start |-> current_offset, end |-> page_end,
                page_number |-> ps[i].page_number]>>
             \o PageMapFrom(ps, i + 1, NextOffset(i, Len(ps), page_end))

BuildPageMap(ps) == PageMapFrom(ps, 1, 0)

OverlapsInclusive(s, e, p) == s <= p.end /\ e >= p.start

\* start < p["end"] and chunk_end > p["start"]
Overlaps(s, e, p) == s < p.end /\ e > p.start

\* The page numbers of the entries of page_map that overlap [s, e), in order.
RECURSIVE ChunkPages(_, _, _)
ChunkPages(pm, s, e) ==
    IF pm = <<>> THEN <<>>
    ELSE (IF Overlaps(s, e, Head(pm)) THEN <<Head(pm).page_number>> ELSE <<>>)
         \o ChunkPages(Tail(pm), s, e)

\* ------------------------------------------------------------------ inputs
Letters == {"a", "b"}
Texts == SeqsUpTo(Letters, MaxTextLen)
PageTexts == SeqsUpTo({"a"}, MaxPageLen)
PageLists ==
    UNION {{[i \in 1..n |-> [page_number |-> i, text |-> f[i]]] :
            f \in [1..n -> PageTexts]} : n \in 0..MaxPages}

\* The state before chunk() runs: no local of the call is set yet.
LocalsInit ==
    /\ request = "direct"
    /\ other = NoOther
    /\ EnvInit
    /\ pc = "ready"
    /\ page_map = <<>>
    /\ start = 0
    /\ final_chunks = <<>>
    /\ current_search_start = 0
    /\ sentences = <<>>
    /\ embeddings = <<>>
    /\ chunks = <<>>
    /\ spans = <<>>
    /\ calls = <<>>
    /\ error = "none"

\* ------------------------------------------------------ Character strategy
CharacterStrategy(cs, co) ==
    [name |-> "character", chunk_size |-> cs, chunk_overlap |-> co]

InitChar ==
    /\ \E cs \in 1..MaxChunkSize, co \in 0..MaxOverlap :
           strategy = CharacterStrategy(cs, co)
    /\ pages \in PageLists
    /\ text \in (IF pages = <<>> THEN Texts ELSE {JoinPages(pages)})
    /\ LocalsInit

\* chunk() up to the while loop: the empty-text return and the initialisation.
CharStart ==
    /\ pc = "ready"
    /\ strategy.name = "character"
    /\ pc' = IF EmptyText(text) THEN "done" ELSE "loop"
    /\ start' = 0
    /\ chunks' = <<>>
    /\ page_map' = IF text # <<>> /\ pages # <<>> THEN BuildPageMap(pages) ELSE <<>>
    /\ UNCHANGED <<inputVars, spans, error, recVars, semVars>>

CharStrideGap(cs, co) == cs - co + 1

\* The stride added to start at the end of an iteration.
CharStride(cs, co) == cs - co

\* One evaluation of the while condition and, when it holds, one iteration.
CharIter ==
    /\ pc = "loop"
    /\ strategy.name = "character"
    /\ Len(chunks) < Len(text) + MaxExtraIter
    /\ IF start < Len(text)
       THEN LET end == start + strategy.chunk_size
                chunk_text == PySlice(text, start, end)
                chunk_end == start + Len(chunk_text)
                chunk_pages == IF page_map # <<>>
                               THEN ChunkPages(page_map, start, chunk_end)
                               ELSE <<>>
            IN  /\ chunks' = Append(chunks, [text |-> chunk_text,
                                             metadata |-> PageMeta(chunk_pages)])
                /\ spans' = Append(spans, [start |-> start, end |-> chunk_end])
                /\ IF end >= Len(text)
                   THEN pc' = "done" /\ start' = start
                   ELSE /\ pc' = "loop"
                        /\ start' = start + CharStride(strategy.chunk_size,
                                                       strategy.chunk_overlap)
       ELSE pc' = "done" /\ UNCHANGED <<start, chunks, spans>>
    /\ UNCHANGED <<inputVars, page_map, error, recVars, semVars>>

NextChar == CharStart \/ CharIter

SpecChar == InitChar /\ [][NextChar]_vars

\* ------------------------------------------------- claims on Character
IsChar == strategy.name = "character"

\* C1: with chunk_size > 0 and chunk_overlap >= chunk_size, every iteration of
\* the Character while loop that does not return advances the window start by
\* at least 1 (so the call terminates with a finite chunk list).
C1_OverlapAtLeastSizeAdvances ==
    [][(IsChar /\ strategy.chunk_overlap >= strategy.chunk_size
        /\ pc = "loop" /\ pc' = "loop") => start' >= start + 1]_vars

\* C2: with 0 <= chunk_overlap < chunk_size and a non-empty text, the returned
\* Character chunks cover every offset of the text, are emitted in increasing
\* start order, each chunk text is the slice of its span, and the last chunk
\* ends at len(text).
C2_CharCoverage ==
    (IsChar /\ pc = "done" /\ text # <<>>
     /\ strategy.chunk_overlap < strategy.chunk_size) =>
        /\ Len(chunks) = Len(spans)
        /\ Len(chunks) >= 1
        /\ \A o \in 0..(Len(text) - 1) :
               \E i \in 1..Len(spans) : spans[i].start <= o /\ o < spans[i].end
        /\ \A i \in 1..(Len(spans) - 1) : spans[i].start < spans[i + 1].start
        /\ \A i \in 1..Len(spans) :
               chunks[i].text = SubSeq(text, spans[i].start + 1, spans[i].end)
        /\ spans[Len(spans)].end = Len(text)

C2_Witness ==
    /\ IsChar /\ pc = "done"
    /\ strategy.chunk_overlap > 0
    /\ strategy.chunk_overlap < strategy.chunk_size
    /\ Len(chunks) >= 3

\* The interval of page k in the joined text, in closed form: the lengths of
\* the pages before it plus one 2-character separator per earlier page.
RECURSIVE SumPageLen(_, _)
SumPageLen(ps, k) == IF k = 0 THEN 0 ELSE Len(ps[k].text) + SumPageLen(ps, k - 1)
PageStart(ps, k) == SumPageLen(ps, k - 1) + 2 * (k - 1)
PageEnd(ps, k) == PageStart(ps, k) + Len(ps[k].text)

\* The page that owns offset o of the joined text (0 for a separator offset).
OwnerOf(ps, o) ==
    IF \E k \in 1..Len(ps) : PageStart(ps, k) <= o /\ o < PageEnd(ps, k)
    THEN CHOOSE k \in 1..Len(ps) : PageStart(ps, k) <= o /\ o < PageEnd(ps, k)
    ELSE 0

ExpectedPageNumbers(ps, s, e) ==
    LET Hit(k) == s < PageEnd(ps, k) /\ e > PageStart(ps, k)
        ks == SelectSeq([k \in 1..Len(ps) |-> k], Hit)
    IN  [i \in 1..Len(ks) |-> ps[ks[i]].page_number]

\* C5: for a text that is the pages joined by the 2-character separator, the
\* page_numbers of every Character chunk with span [s, e) are, in page order,
\* the pages whose interval intersects [s, e) (half-open); a chunk covering
\* exactly the first page reports only it, and a chunk holding characters of
\* two adjacent pages reports both.
C5_CharPageNumbers ==
    (IsChar /\ pages # <<>> /\ text = JoinPages(pages)) =>
        \A i \in 1..Len(chunks) :
            LET s == spans[i].start
                e == spans[i].end
                pn == chunks[i].metadata.page_numbers
            IN  /\ pn = ExpectedPageNumbers(pages, s, e)
                /\ (s = 0 /\ e = Len(pages[1].text)) => pn = <<pages[1].page_number>>
                /\ \A k \in 1..(Len(pages) - 1) :
                       (\E o1, o2 \in s..(e - 1) :
                            OwnerOf(pages, o1) = k /\ OwnerOf(pages, o2) = k + 1)
                       => \E j \in 1..(Len(pn) - 1) :
                              /\ pn[j] = pages[k].page_number
                              /\ pn[j + 1] = pages[k + 1].page_number

C5_Witness ==
    /\ IsChar /\ Len(pages) = 2 /\ text = JoinPages(pages)
    /\ \E i, j \in 1..Len(chunks) :
           /\ spans[i].start = 0 /\ spans[i].end = Len(pages[1].text)
           /\ chunks[i].metadata.page_numbers = <<1>>
           /\ chunks[j].metadata.page_numbers = <<1, 2>>

PageMapBuilt == IsChar /\ pc \in {"loop", "done"} /\ pages # <<>> /\ text # <<>>

\* C6 as stated: the intervals of the page offset map are contiguous,
\* non-overlapping, cover [0, total_length), are ordered by increasing start and
\* have end - start = len(page.text).
C6_Original ==
    PageMapBuilt =>
        /\ Len(page_map) = Len(pages)
        /\ \A k \in 1..Len(page_map) :
               page_map[k].end - page_map[k].start = Len(pages[k].text)
        /\ \A k \in 1..(Len(page_map) - 1) :
               /\ page_map[k + 1].start = page_map[k].end
               /\ page_map[k].start < page_map[k + 1].start
        /\ \A o \in 0..(Len(text) - 1) :
               \E k \in 1..Len(page_map) :
                   page_map[k].start <= o /\ o < page_map[k].end

\* C6 (amended): the intervals are non-overlapping, ordered by increasing
\* start, the first starts at 0, each next one starts exactly 2 characters (the
\* separator, which no interval covers) after the previous one ends, the last
\* ends at total_length, end - start = len(page.text), and every offset of
\* [0, total_length) lies in exactly one interval or in a separator.
C6_PageMapIntervals ==
    PageMapBuilt =>
        /\ Len(page_map) = Len(pages)
        /\ page_map[1].start = 0
        /\ page_map[Len(page_map)].end = Len(JoinPages(pages))
        /\ \A k \in 1..Len(page_map) :
               /\ page_map[k].end - page_map[k].start = Len(pages[k].text)
               /\ page_map[k].page_number = pages[k].page_number
               /\ SubSeq(text, page_map[k].start + 1, page_map[k].end) = pages[k].text
        /\ \A k \in 1..(Len(page_map) - 1) :
               /\ page_map[k + 1].start = page_map[k].end + 2
               /\ page_map[k].start < page_map[k + 1].start
               /\ SubSeq(text, page_map[k].end + 1, page_map[k].end + 2) = PageSeparator
        /\ \A o \in 0..(Len(text) - 1) :
               LET in == {k \in 1..Len(page_map) :
                              page_map[k].start <= o /\ o < page_map[k].end}
                   sep == {k \in 1..(Len(page_map) - 1) :
                              page_map[k].end <= o /\ o < page_map[k].end + 2}
               IN  Cardinality(in) + Cardinality(sep) = 1

C6_Witness ==
    /\ PageMapBuilt
    /\ Len(page_map) = 2
    /\ page_map[1].end > 0
    /\ page_map[2].start = page_map[1].end + 2
    /\ page_map[2].end > page_map[2].start

\* ------------------------------------------------------ Recursive strategy
DefaultSeparators == <<<<NL, NL>>, <<NL>>, <<" ">>, <<>>>>

RecursiveStrategy(cs, co, seps) ==
    [name |-> "recursive", chunk_size |-> cs, chunk_overlap |-> co,
     separators |-> IF seps = <<>> THEN DefaultSeparators ELSE seps]

\* re.escape(s) for the separator characters: each of them is a special
\* character and gets a backslash in front.
RECURSIVE RegexEscape(_)
RegexEscape(s) ==
    IF s = <<>> THEN <<>> ELSE <<"\\", Head(s)>> \o RegexEscape(Tail(s))

RECURSIVE PickSeparatorKeepAll(_, _, _)
PickSeparatorKeepAll(t, separators, i) ==
    IF i > Len(separators)
    THEN [separator |-> separators[Len(separators)], new_separators |-> <<>>]
    ELSE IF separators[i] = <<>>
    THEN [separator |-> <<>>, new_separators |-> <<>>]
    ELSE IF Contains(t, RegexEscape(separators[i])) \/ Contains(t, separators[i])
    THEN [separator |-> separators[i], new_separators |-> separators]
    ELSE PickSeparatorKeepAll(t, separators, i + 1)

\* The loop that picks the separator: the first separator that is empty or
\* occurs in the text; separators[-1] and no remaining separators when the
\* loop runs out.
RECURSIVE PickSeparator(_, _, _)
PickSeparator(t, separators, i) ==
    IF i > Len(separators)
    THEN [separator |-> separators[Len(separators)], new_separators |-> <<>>]
    ELSE IF separators[i] = <<>>
    THEN [separator |-> <<>>, new_separators |-> <<>>]
    ELSE IF Contains(t, RegexEscape(separators[i])) \/ Contains(t, separators[i])
    THEN [separator |-> separators[i],
          new_separators |-> SubSeq(separators, i + 1, Len(separators))]
    ELSE PickSeparator(t, separators, i + 1)

\* text.split(separator), or list(text) for the empty separator.
Splits(t, separator) ==
    IF separator # <<>> THEN PySplit(t, separator)
    ELSE [i \in 1..Len(t) |-> <<t[i]>>]

RECURSIVE OverlapFromInclusive(_, _, _, _, _, _)
OverlapFromInclusive(current_chunk, j, overlap_chunk, overlap_len, separator, co) ==
    IF j = 0 THEN [chunk |-> overlap_chunk, len |-> overlap_len]
    ELSE IF overlap_len + Len(current_chunk[j]) <= co
    THEN OverlapFromInclusive(current_chunk, j - 1,
                              <<current_chunk[j]>> \o overlap_chunk,
                              overlap_len + Len(current_chunk[j]) + Len(separator),
                              separator, co)
    ELSE [chunk |-> overlap_chunk, len |-> overlap_len]

\* The overlap loop over reversed(current_chunk): j is the 1-based index of
\* the next item, read from the end backward.
RECURSIVE OverlapFrom(_, _, _, _, _, _)
OverlapFrom(current_chunk, j, overlap_chunk, overlap_len, separator, co) ==
    IF j = 0 THEN [chunk |-> overlap_chunk, len |-> overlap_len]
    ELSE IF overlap_len + Len(current_chunk[j]) < co
    THEN OverlapFrom(current_chunk, j - 1, <<current_chunk[j]>> \o overlap_chunk,
                     overlap_len + Len(current_chunk[j]) + Len(separator),
                     separator, co)
    ELSE [chunk |-> overlap_chunk, len |-> overlap_len]

\* A flush that seeds the next chunk with the first flushed part.
FlushCarryHead(st, separator, co) ==
    IF st.current_chunk # <<>>
    THEN LET doc == PyJoin(separator, st.current_chunk)
         IN  [good_splits |-> st.good_splits
                              \o (IF StripNonEmpty(doc) THEN <<doc>> ELSE <<>>),
              current_chunk |-> <<Head(st.current_chunk)>>,
              current_length |-> Len(Head(st.current_chunk)) + Len(separator)]
    ELSE st

\* The flush of a full current chunk: the joined chunk goes to good_splits
\* unless it is all whitespace, and the overlap seeds the next chunk.
Flush(st, separator, co) ==
    IF st.current_chunk # <<>>
    THEN LET doc == PyJoin(separator, st.current_chunk)
             ov == OverlapFrom(st.current_chunk, Len(st.current_chunk),
                               <<>>, 0, separator, co)
         IN  [good_splits |-> st.good_splits
                              \o (IF StripNonEmpty(doc) THEN <<doc>> ELSE <<>>),
              current_chunk |-> ov.chunk,
              current_length |-> ov.len]
    ELSE st

RECURSIVE SplitText(_, _, _, _)

\* One iteration of the merge loop over splits.
MergeStep(st, split, separator, new_separators, cs, co) ==
    LET split_len == Len(split)
        sep_len == IF st.current_chunk # <<>> THEN Len(separator) ELSE 0
    IN  IF st.current_length + split_len + sep_len > cs
        THEN LET fl == Flush(st, separator, co)
             IN  IF split_len > cs /\ new_separators # <<>>
                 THEN [good_splits |-> fl.good_splits
                                       \o SplitText(split, new_separators, cs, co),
                       current_chunk |-> <<>>,
                       current_length |-> 0]
                 ELSE [good_splits |-> fl.good_splits,
                       current_chunk |-> Append(fl.current_chunk, split),
                       current_length |-> fl.current_length + split_len]
        ELSE [good_splits |-> st.good_splits,
              current_chunk |-> Append(st.current_chunk, split),
              current_length |-> st.current_length + sep_len + split_len]

RECURSIVE MergeFrom(_, _, _, _, _, _, _)
MergeFrom(st, splits, i, separator, new_separators, cs, co) ==
    IF i > Len(splits) THEN st
    ELSE MergeFrom(MergeStep(st, splits[i], separator, new_separators, cs, co),
                   splits, i + 1, separator, new_separators, cs, co)

\* _split_text(text, separators)
SplitText(t, separators, cs, co) ==
    LET pick == PickSeparator(t, separators, 1)
        st == MergeFrom([good_splits |-> <<>>, current_chunk |-> <<>>,
                         current_length |-> 0],
                        Splits(t, pick.separator), 1,
                        pick.separator, pick.new_separators, cs, co)
    IN  IF st.current_chunk # <<>>
        THEN LET doc == PyJoin(pick.separator, st.current_chunk)
             IN  st.good_splits \o (IF StripNonEmpty(doc) THEN <<doc>> ELSE <<>>)
        ELSE st.good_splits

RecLetters == {"a", " ", NL}
RecTexts == SeqsUpTo(RecLetters, MaxRecLen)
RecSeparatorLists == {<<>>, <<<<" ">>>>, <<<<NL>>, <<>>>>}

InitRec ==
    /\ \E cs \in 1..MaxChunkSize, co \in 0..MaxOverlap, seps \in RecSeparatorLists :
           strategy = RecursiveStrategy(cs, co, seps)
    /\ pages \in PageLists
    /\ text \in (IF pages = <<>> THEN RecTexts ELSE {JoinPages(pages)})
    /\ LocalsInit

\* chunk() up to the for loop over final_chunks: the empty-text return, the
\* split and the page offset map.
RecStart ==
    /\ pc = "ready"
    /\ strategy.name = "recursive"
    /\ LET fc == IF EmptyText(text) THEN <<>>
                 ELSE SplitText(text, strategy.separators,
                                strategy.chunk_size, strategy.chunk_overlap)
       IN  /\ final_chunks' = fc
           /\ pc' = IF fc = <<>> THEN "done" ELSE "locate"
    /\ current_search_start' = 0
    /\ chunks' = <<>>
    /\ page_map' = IF text # <<>> /\ pages # <<>> THEN BuildPageMap(pages) ELSE <<>>
    /\ UNCHANGED <<inputVars, start, spans, error, semVars>>

\* One iteration of the for loop over final_chunks: locate the chunk text
\* from the cursor (from the beginning as a fallback) and attach its pages.
RecLocate ==
    /\ pc = "locate"
    /\ strategy.name = "recursive"
    /\ LET chunk_text == Head(final_chunks)
           found == PyFind(text, chunk_text, current_search_start)
           start_index == IF found = -1 THEN PyFind(text, chunk_text, 0) ELSE found
           chunk_end == start_index + Len(chunk_text)
           chunk_pages == IF page_map # <<>>
                          THEN ChunkPages(page_map, start_index, chunk_end)
                          ELSE <<>>
       IN  IF start_index # -1
           THEN /\ current_search_start' = Max(current_search_start, start_index + 1)
                /\ chunks' = Append(chunks, [text |-> chunk_text,
                                             metadata |-> PageMeta(chunk_pages)])
                /\ spans' = Append(spans, [start |-> start_index, end |-> chunk_end])
           ELSE /\ current_search_start' = current_search_start
                /\ chunks' = Append(chunks, [text |-> chunk_text,
                                             metadata |-> EmptyMeta])
                /\ spans' = Append(spans, [start |-> -1, end |-> -1])
    /\ final_chunks' = Tail(final_chunks)
    /\ pc' = IF Tail(final_chunks) = <<>> THEN "done" ELSE "locate"
    /\ UNCHANGED <<inputVars, page_map, start, error, semVars>>

NextRec == RecStart \/ RecLocate

SpecRec == InitRec /\ [][NextRec]_vars

\* -------------------------------------------------- claims on Recursive
IsRec == strategy.name = "recursive"

\* A single token: no paragraph break, line break or space occurs in the text.
SingleToken(t) == \A i \in 1..Len(t) : t[i] \notin {NL, " "}

\* C3: with the default separators, a text that is a single token longer than
\* chunk_size is split through the empty-string fallback into chunks each of
\* length <= chunk_size.
C3_LongTokenWithinChunkSize ==
    (IsRec /\ pc = "done" /\ strategy.separators = DefaultSeparators
     /\ SingleToken(text) /\ Len(text) > strategy.chunk_size) =>
        /\ PickSeparator(text, strategy.separators, 1).separator = <<>>
        /\ Len(chunks) >= 1
        /\ \A i \in 1..Len(chunks) : Len(chunks[i].text) <= strategy.chunk_size

\* ------------------------------------------------------- sentence splitting
Terminal == {".", "!", "?"}

\* The end of the run of whitespace that starts at index i (1-based).
RECURSIVE RunEnd(_, _)
RunEnd(t, i) ==
    IF i < Len(t) /\ t[i + 1] \in Whitespace THEN RunEnd(t, i + 1) ELSE i

\* re.split(r'((?<=[.!?])\s+)', text): the pieces between the matches with the
\* matched separators kept, [piece, sep, piece, ..., piece].  A match is a
\* maximal run of whitespace that follows a terminal mark.
RECURSIVE SplitKeep(_, _, _)
SplitKeep(t, i, piece) ==
    IF i > Len(t) THEN <<piece>>
    ELSE IF t[i] \in Whitespace /\ i > 1 /\ t[i - 1] \in Terminal
    THEN <<piece, SubSeq(t, i, RunEnd(t, i))>>
         \o SplitKeep(t, RunEnd(t, i) + 1, <<>>)
    ELSE SplitKeep(t, i + 1, Append(piece, t[i]))

\* re.split(r'(?<=[.!?])\s+', text): the pieces alone.
RegexSplit(t) ==
    LET parts == SplitKeep(t, 1, <<>>)
    IN  [k \in 1..((Len(parts) + 1) \div 2) |-> parts[2 * k - 1]]

\* s.strip()
RECURSIVE LStrip(_)
LStrip(t) == IF t # <<>> /\ Head(t) \in Whitespace THEN LStrip(Tail(t)) ELSE t
RECURSIVE RStrip(_)
RStrip(t) ==
    IF t # <<>> /\ t[Len(t)] \in Whitespace
    THEN RStrip(SubSeq(t, 1, Len(t) - 1)) ELSE t
Strip(t) == RStrip(LStrip(t))

\* [s.strip() for s in sentences if s.strip()]
RECURSIVE StripAll(_)
StripAll(ss) ==
    IF ss = <<>> THEN <<>>
    ELSE (IF Strip(Head(ss)) # <<>> THEN <<Strip(Head(ss))>> ELSE <<>>)
         \o StripAll(Tail(ss))

\* _split_sentences(text)
SplitSentences(t) == StripAll(RegexSplit(t))

\* ------------------------------------------------------- Semantic strategy
\* A threshold and a similarity are held in 25ths, so 0.8 is 20.
SemanticStrategy(provider, thr) ==
    [name |-> "semantic", embedding_provider |-> provider, threshold |-> thr]

Dot(u, v) == u[1] * v[1] + u[2] * v[2]
Norm(u) == CHOOSE n \in 0..Dot(u, u) : n * n = Dot(u, u)

\* cosine_similarity(prev_embedding, curr_embedding)[0][0], in 25ths.
CosineSimilarity(u, v) == (5 * 5 * Dot(u, v)) \div (Norm(u) * Norm(v))

SimilarStrict(similarity, threshold) == similarity > threshold

\* similarity >= self.threshold
Similar(similarity, threshold) == similarity >= threshold

DedupAppend(seq, x) == IF \E i \in 1..Len(seq) : seq[i] = x THEN seq ELSE Append(seq, x)

\* The page numbers of the entries that overlap [s, e), each kept once.
RECURSIVE ChunkPagesOnce(_, _, _, _)
ChunkPagesOnce(pm, s, e, chunk_pages) ==
    IF pm = <<>> THEN chunk_pages
    ELSE ChunkPagesOnce(Tail(pm), s, e,
                        IF Overlaps(s, e, Head(pm))
                        THEN DedupAppend(chunk_pages, Head(pm).page_number)
                        ELSE chunk_pages)

\* _get_chunk_metadata(chunk_text, full_text, pages)
GetChunkMetadata(chunk_text, full_text, ps) ==
    IF ps = <<>> THEN EmptyMeta
    ELSE LET start_index == PyFind(full_text, chunk_text, 0)
         IN  IF start_index = -1 THEN EmptyMeta
             ELSE PageMeta(ChunkPagesOnce(BuildPageMap(ps), start_index,
                                          start_index + Len(chunk_text), <<>>))

SemChunk(current_chunk_sentences, full_text, ps) ==
    LET chunk_text == PyJoin(<<" ">>, current_chunk_sentences)
    IN  [text |-> chunk_text,
         metadata |-> GetChunkMetadata(chunk_text, full_text, ps)]

\* A loop that ends without flushing the chunk in progress.
RECURSIVE SemLoopDropLast(_, _, _, _, _, _, _)
SemLoopDropLast(ss, embs, i, cur, out, full_text, st) ==
    IF i > Len(ss) THEN out
    ELSE IF Similar(CosineSimilarity(embs[i - 1], embs[i]), st.threshold)
    THEN SemLoopDropLast(ss, embs, i + 1, Append(cur, ss[i]), out, full_text, st)
    ELSE SemLoopDropLast(ss, embs, i + 1, <<ss[i]>>,
                         Append(out, SemChunk(cur, full_text, st.pages)),
                         full_text, st)

\* The loop over range(1, len(sentences)) and the final flush: i is the
\* 1-based index of the next sentence.
RECURSIVE SemLoop(_, _, _, _, _, _, _)
SemLoop(ss, embs, i, cur, out, full_text, st) ==
    IF i > Len(ss)
    THEN IF cur # <<>> THEN Append(out, SemChunk(cur, full_text, st.pages)) ELSE out
    ELSE IF Similar(CosineSimilarity(embs[i - 1], embs[i]), st.threshold)
    THEN SemLoop(ss, embs, i + 1, Append(cur, ss[i]), out, full_text, st)
    ELSE SemLoop(ss, embs, i + 1, <<ss[i]>>,
                 Append(out, SemChunk(cur, full_text, st.pages)), full_text, st)

EmbedRequestsPerSentence(ss) ==
    [i \in 1..Len(ss) |-> [op |-> "embed", texts |-> <<ss[i]>>, outcome |-> "pending"]]

\* The requests chunk() makes on the provider for the sentences:
\* self.embedding_provider.embed_batch(sentences).
EmbedRequests(ss) ==
    <<[op |-> "embed_batch", texts |-> ss, outcome |-> "pending"]>>

EmbedFailedFallback(e, whole) == [pc |-> "done", error |-> "none", chunks |-> <<whole>>]

\* What chunk() does when embed_batch raises e: nothing catches it, so the
\* call ends with e and returns nothing.
EmbedFailed(e, whole) == [pc |-> "failed", error |-> e, chunks |-> <<>>]

SemLetters == {"a", ".", " "}
SemTexts == SeqsUpTo(SemLetters, MaxSemLen)
Thresholds == {15, 20, 25}
EmbeddingVectors == {<<5, 0>>, <<4, 3>>, <<0, 5>>}
ProviderErrors == {"ProviderError", "TimeoutError"}

InitSem ==
    /\ \E thr \in Thresholds : strategy = SemanticStrategy("provider", thr)
    /\ text \in SemTexts
    /\ pages \in {<<>>, <<[page_number |-> 1, text |-> text]>>}
    /\ LocalsInit

\* chunk() up to the embedding call: the empty-text return, the split, the
\* single-chunk return for fewer than 2 sentences, and the call itself.
SemStart ==
    /\ pc = "ready"
    /\ strategy.name = "semantic"
    /\ LET ss == SplitSentences(text)
       IN  IF EmptyText(text)
           THEN /\ pc' = "done"
                /\ chunks' = <<>>
                /\ UNCHANGED <<sentences, calls>>
           ELSE IF Len(ss) < 2
           THEN /\ pc' = "done"
                /\ chunks' = <<[text |-> text,
                               metadata |-> GetChunkMetadata(text, text, pages)]>>
                /\ sentences' = ss
                /\ UNCHANGED calls
           ELSE /\ pc' = "awaiting"
                /\ chunks' = <<>>
                /\ sentences' = ss
                /\ calls' = calls \o EmbedRequests(ss)
    /\ UNCHANGED <<inputVars, page_map, start, spans, error, recVars, embeddings>>

\* The provider answers the pending call with one vector per text.
SemReply ==
    /\ pc = "awaiting"
    /\ strategy.name = "semantic"
    /\ \E embs \in [1..Len(sentences) -> EmbeddingVectors] :
           /\ embeddings' = embs
           /\ chunks' = SemLoop(sentences, embs, 2, <<sentences[1]>>, <<>>, text,
                                [pages |-> pages, threshold |-> strategy.threshold])
    /\ calls' = [calls EXCEPT ![Len(calls)].outcome = "ok"]
    /\ pc' = "done"
    /\ UNCHANGED <<inputVars, page_map, start, spans, error, recVars, sentences>>

\* The provider fails the pending call with an error.
SemFail ==
    /\ pc = "awaiting"
    /\ strategy.name = "semantic"
    /\ \E e \in ProviderErrors :
           LET r == EmbedFailed(e, [text |-> text,
                                    metadata |-> GetChunkMetadata(text, text, pages)])
           IN  /\ calls' = [calls EXCEPT ![Len(calls)].outcome = e]
               /\ pc' = r.pc
               /\ error' = r.error
               /\ chunks' = r.chunks
    /\ UNCHANGED <<inputVars, page_map, start, spans, recVars, sentences, embeddings>>

NextSem == SemStart \/ SemReply \/ SemFail

SpecSem == InitSem /\ [][NextSem]_vars

\* --------------------------------------------------- claims on Semantic
IsSem == strategy.name = "semantic"

\* The similarity of sentences i-1 and i of the answered call.
PairSimilarity(i) == CosineSimilarity(embeddings[i - 1], embeddings[i])

\* The sentences that start a chunk when sentence i joins the chunk of
\* sentence i-1 if and only if their similarity is >= threshold.
GroupStarts ==
    {1} \cup {i \in 2..Len(sentences) : PairSimilarity(i) < strategy.threshold}
GroupStart(k) ==
    CHOOSE i \in GroupStarts : Cardinality({j \in GroupStarts : j < i}) = k - 1
GroupEnd(k) ==
    IF k = Cardinality(GroupStarts) THEN Len(sentences) ELSE GroupStart(k + 1) - 1

SemAnswered == IsSem /\ pc = "done" /\ Len(sentences) >= 2

\* C7: in Semantic chunk(), sentence i is placed in the chunk of sentence i-1
\* if and only if similarity(i-1, i) >= threshold, so two consecutive
\* sentences whose similarity equals threshold share a chunk.
C7_ThresholdInclusive ==
    SemAnswered =>
        /\ Len(chunks) = Cardinality(GroupStarts)
        /\ \A k \in 1..Len(chunks) :
               chunks[k].text =
                   PyJoin(<<" ">>, SubSeq(sentences, GroupStart(k), GroupEnd(k)))

C7_Witness ==
    /\ SemAnswered
    /\ Len(sentences) = 3
    /\ PairSimilarity(2) = strategy.threshold
    /\ PairSimilarity(3) < strategy.threshold
    /\ Len(chunks) = 2
    /\ chunks[1].text = sentences[1] \o <<" ">> \o sentences[2]

\* C8: a Semantic chunk() call makes at most one call on the embedding
\* provider: exactly one embed_batch with all sentences in order when the text
\* has at least 2 sentences, none otherwise, and never a per-text embed.
C8_OneBatchedCall ==
    IsSem =>
        /\ Len(calls) <= 1
        /\ \A i \in 1..Len(calls) : calls[i].op = "embed_batch"
        /\ pc # "ready" =>
               IF Len(SplitSentences(text)) >= 2
               THEN /\ Len(calls) = 1
                    /\ calls[1].texts = SplitSentences(text)
               ELSE calls = <<>>

C8_Witness ==
    /\ IsSem /\ pc = "done"
    /\ Len(calls) = 1
    /\ Len(calls[1].texts) = 3
    /\ Len(chunks) = 3

\* C9: when the embedding call of Semantic chunk() fails, chunk() fails with
\* that same error, returns no chunk list, and no further embedding call has
\* been made.
C9_EmbeddingFailurePropagates ==
    (IsSem /\ calls # <<>> /\ calls[Len(calls)].outcome \in ProviderErrors) =>
        /\ pc = "failed"
        /\ error = calls[Len(calls)].outcome
        /\ chunks = <<>>
        /\ Len(calls) = 1

C9_Witness ==
    /\ IsSem /\ pc = "failed"
    /\ error = "TimeoutError"
    /\ calls[1].outcome = "TimeoutError"
    /\ Len(sentences) = 3

\* ------------------------------------------------------ Paragraph strategy
ParagraphStrategy(mcs) == [name |-> "paragraph", min_chunk_size |-> mcs]

\* The finalisation of the current chunk: its pages are those of the span
\* [current_chunk_start, current_chunk_start + len(current_chunk_text)).
ParFinalize(st, pm) ==
    LET chunk_end == st.current_chunk_start + Len(st.current_chunk_text)
        chunk_pages == IF pm # <<>>
                       THEN ChunkPages(pm, st.current_chunk_start, chunk_end)
                       ELSE <<>>
    IN  [st EXCEPT
            !.chunks = Append(@, [text |-> st.current_chunk_text,
                                  metadata |-> PageMeta(chunk_pages)]),
            !.spans = Append(@, [start |-> st.current_chunk_start,
                                 end |-> chunk_end])]

ParMergesInclusive(current_chunk_text, p, mcs) ==
    Len(current_chunk_text) + 2 + Len(p) <= mcs

\* len(current_chunk_text) + 2 + len(p) < self.min_chunk_size
ParMerges(current_chunk_text, p, mcs) == Len(current_chunk_text) + 2 + Len(p) < mcs

\* One iteration of the loop over raw_paragraphs.
ParStep(st, p, pm, mcs) ==
    IF ~StripNonEmpty(p)
    THEN [st EXCEPT !.current_pos = @ + Len(p) + 2]
    ELSE LET st2 ==
                 IF st.current_chunk_text = <<>>
                 THEN [st EXCEPT !.current_chunk_start = st.current_pos,
                                 !.current_chunk_text = p]
                 ELSE IF ParMerges(st.current_chunk_text, p, mcs)
                 THEN [st EXCEPT !.current_chunk_text = @ \o <<NL, NL>> \o p]
                 ELSE [ParFinalize(st, pm) EXCEPT
                          !.current_chunk_start = st.current_pos,
                          !.current_chunk_text = p]
         IN  [st2 EXCEPT !.current_pos = @ + Len(p) + 2]

RECURSIVE ParLoop(_, _, _, _, _)
ParLoop(st, raw_paragraphs, i, pm, mcs) ==
    IF i > Len(raw_paragraphs) THEN st
    ELSE ParLoop(ParStep(st, raw_paragraphs[i], pm, mcs), raw_paragraphs,
                 i + 1, pm, mcs)

\* A chunk() that emits the final chunk only when it reached min_chunk_size.
ParagraphChunkDropShort(t, ps, mcs) ==
    IF EmptyText(t) THEN [chunks |-> <<>>, spans |-> <<>>]
    ELSE LET pm == IF ps # <<>> THEN BuildPageMap(ps) ELSE <<>>
             st == ParLoop([chunks |-> <<>>, spans |-> <<>>,
                            current_chunk_text |-> <<>>,
                            current_chunk_start |-> 0, current_pos |-> 0],
                           PySplit(t, <<NL, NL>>), 1, pm, mcs)
             fin == IF Len(st.current_chunk_text) >= mcs
                    THEN ParFinalize(st, pm) ELSE st
         IN  [chunks |-> fin.chunks, spans |-> fin.spans]

\* chunk(text, pages) of the Paragraph strategy: the chunks and the span
\* tracked for each.
ParagraphChunk(t, ps, mcs) ==
    IF EmptyText(t) THEN [chunks |-> <<>>, spans |-> <<>>]
    ELSE LET pm == IF ps # <<>> THEN BuildPageMap(ps) ELSE <<>>
             st == ParLoop([chunks |-> <<>>, spans |-> <<>>,
                            current_chunk_text |-> <<>>,
                            current_chunk_start |-> 0, current_pos |-> 0],
                           PySplit(t, <<NL, NL>>), 1, pm, mcs)
             fin == IF st.current_chunk_text # <<>> THEN ParFinalize(st, pm) ELSE st
         IN  [chunks |-> fin.chunks, spans |-> fin.spans]

ParLetters == {"a", " ", NL}
ParTexts == SeqsUpTo(ParLetters, MaxParLen)

InitPar ==
    /\ \E mcs \in 1..MaxMinChunkSize : strategy = ParagraphStrategy(mcs)
    /\ pages \in PageLists
    /\ text \in (IF pages = <<>> THEN ParTexts ELSE {JoinPages(pages)})
    /\ LocalsInit

\* chunk() of the Paragraph strategy, from call to return.
ParChunk ==
    /\ pc = "ready"
    /\ strategy.name = "paragraph"
    /\ LET r == ParagraphChunk(text, pages, strategy.min_chunk_size)
       IN  chunks' = r.chunks /\ spans' = r.spans
    /\ page_map' = IF text # <<>> /\ pages # <<>> THEN BuildPageMap(pages) ELSE <<>>
    /\ pc' = "done"
    /\ UNCHANGED <<inputVars, start, error, recVars, semVars>>

NextPar == ParChunk

SpecPar == InitPar /\ [][NextPar]_vars

\* C23: for every chunk emitted by Paragraph chunk(), the span
\* [chunk_start, chunk_start + len(chunk text)) used to compute its page
\* numbers is the span the chunk occupies in the input text: the text between
\* the two offsets equals the chunk text, for any input, runs of consecutive
\* delimiters and whitespace-only paragraphs included.
C23_ParagraphSpanExact ==
    (strategy.name = "paragraph" /\ pc = "done") =>
        \A k \in 1..Len(chunks) :
            /\ spans[k].end = spans[k].start + Len(chunks[k].text)
            /\ spans[k].end <= Len(text)
            /\ SubSeq(text, spans[k].start + 1, spans[k].end) = chunks[k].text

\* ------------------------------------------------------- Sentence strategy
SentenceStrategy(spc, ov) ==
    [name |-> "sentence", sentences_per_chunk |-> spc, overlap |-> ov]

\* The loop over parts: a whitespace part only advances current_pos, any
\* other non-empty part is a sentence with its raw span.
RECURSIVE SentencesFrom(_, _, _)
SentencesFrom(parts, i, current_pos) ==
    IF i > Len(parts) THEN <<>>
    ELSE LET part == parts[i]
         IN  IF part = <<>> THEN SentencesFrom(parts, i + 1, current_pos)
             ELSE IF ~StripNonEmpty(part)
             THEN SentencesFrom(parts, i + 1, current_pos + Len(part))
             ELSE <<[text |-> Strip(part), start |-> current_pos,
                     end |-> current_pos + Len(part)]>>
                  \o SentencesFrom(parts, i + 1, current_pos + Len(part))

SentStrideNoOverlap(spc, ov) == IF spc - ov < 1 THEN spc ELSE spc - ov

\* stride = sentences_per_chunk - overlap, raised to 1
SentStride(spc, ov) == IF spc - ov < 1 THEN 1 ELSE spc - ov

SentGroupChunk(group, pm) ==
    LET chunk_text == PyJoin(<<" ">>, [k \in 1..Len(group) |-> group[k].text])
        group_start == group[1].start
        group_end == group[Len(group)].end
        chunk_pages == IF pm # <<>> THEN ChunkPages(pm, group_start, group_end)
                       ELSE <<>>
    IN  [text |-> chunk_text, metadata |-> PageMeta(chunk_pages)]

\* The loop over range(0, len(sentences), stride): i is the 0-based index of
\* the first sentence of the window.
RECURSIVE SentWindows(_, _, _, _, _)
SentWindows(ss, i, spc, stride, pm) ==
    IF i >= Len(ss) THEN [chunks |-> <<>>, spans |-> <<>>]
    ELSE LET group == PySlice(ss, i, i + spc)
             rest == SentWindows(ss, i + stride, spc, stride, pm)
         IN  [chunks |-> <<SentGroupChunk(group, pm)>> \o rest.chunks,
              spans |-> <<[start |-> i, end |-> i + Len(group)]>> \o rest.spans]

\* chunk(text, pages) of the Sentence strategy: the chunks and, for each, the
\* window [start, end) of sentence indices it holds.
SentenceChunk(t, ps, spc, ov) ==
    IF EmptyText(t) THEN [chunks |-> <<>>, spans |-> <<>>, sentences |-> <<>>]
    ELSE LET pm == IF ps # <<>> THEN BuildPageMap(ps) ELSE <<>>
             ss == SentencesFrom(SplitKeep(t, 1, <<>>), 1, 0)
         IN  IF ss = <<>> THEN [chunks |-> <<>>, spans |-> <<>>, sentences |-> ss]
             ELSE IF Len(ss) <= spc
             THEN LET chunk_pages ==
                          IF pm # <<>>
                          THEN ChunkPages(pm, ss[1].start, ss[Len(ss)].end)
                          ELSE <<>>
                  IN  [chunks |-> <<[text |-> t, metadata |-> PageMeta(chunk_pages)]>>,
                       spans |-> <<[start |-> 0, end |-> Len(ss)]>>,
                       sentences |-> ss]
             ELSE SentWindows(ss, 0, spc, SentStride(spc, ov), pm)
                  @@ [sentences |-> ss]

SentLetters == {"a", ".", " "}
\* five one-character sentences, as in the five-sentence text of test_chunking
FiveSentenceText == <<".", " ", ".", " ", ".", " ", ".", " ", ".">>
SentTexts == SeqsUpTo(SentLetters, MaxSentLen) \cup {FiveSentenceText}

InitSent ==
    /\ \E spc \in 1..MaxSentencesPerChunk, ov \in 0..MaxSentOverlap :
           strategy = SentenceStrategy(spc, ov)
    /\ text \in SentTexts
    /\ pages \in {<<>>, <<[page_number |-> 1, text |-> text]>>}
    /\ LocalsInit

\* chunk() of the Sentence strategy, from call to return.
SentChunk ==
    /\ pc = "ready"
    /\ strategy.name = "sentence"
    /\ LET r == SentenceChunk(text, pages, strategy.sentences_per_chunk,
                              strategy.overlap)
       IN  chunks' = r.chunks /\ spans' = r.spans /\ sentences' = r.sentences
    /\ page_map' = IF text # <<>> /\ pages # <<>> THEN BuildPageMap(pages) ELSE <<>>
    /\ pc' = "done"
    /\ UNCHANGED <<inputVars, start, error, recVars, embeddings, calls>>

NextSent == SentChunk

SpecSent == InitSent /\ [][NextSent]_vars

\* --------------------------------------------------- Hierarchical strategy
HierarchicalStrategy(lvl) == [name |-> "hierarchical", split_level |-> lvl]

\* The length of the prefix chunk_text[:50] used by the fallback search.
PrefixLen == 50

\* The number of "#" characters from index i on.
RECURSIVE HashRun(_, _)
HashRun(t, i) == IF i <= Len(t) /\ t[i] = "#" THEN 1 + HashRun(t, i + 1) ELSE 0

\* The last index of the line that holds index i.
RECURSIVE LineEnd(_, _)
LineEnd(t, i) == IF i < Len(t) /\ t[i + 1] # NL THEN LineEnd(t, i + 1) ELSE i

\* The last index of the match of  #{1,lvl}\s+.+$  that starts at index i,
\* or 0 when the pattern does not match there.  The whitespace run is taken as
\* long as possible and given back one character at a time until .+ finds a
\* character other than a newline.
HeaderEnd(t, i, lvl) ==
    LET h == HashRun(t, i)
        w == i + h
    IN  IF h < 1 \/ h > lvl \/ w > Len(t) THEN 0
        ELSE IF t[w] \notin Whitespace THEN 0
        ELSE LET r == RunEnd(t, w)
             IN  IF r < Len(t) THEN LineEnd(t, r + 1)
                 ELSE LET js == {j \in (w + 1)..r : t[j] # NL}
                      IN  IF js = {} THEN 0
                          ELSE LineEnd(t, CHOOSE j \in js : \A k \in js : k <= j)

\* re.split(header_pattern, text, flags=re.MULTILINE): [text before the first
\* header, header, text, header, ..., text].
RECURSIVE HeaderSplit(_, _, _, _)
HeaderSplit(t, i, seg_start, lvl) ==
    IF i > Len(t) THEN <<SubSeq(t, seg_start, Len(t))>>
    ELSE LET e == IF i = 1 \/ t[i - 1] = NL THEN HeaderEnd(t, i, lvl) ELSE 0
         IN  IF e > 0
             THEN <<SubSeq(t, seg_start, i - 1), SubSeq(t, i, e)>>
                  \o HeaderSplit(t, e + 1, e + 1, lvl)
             ELSE HeaderSplit(t, i + 1, seg_start, lvl)

\* s.lstrip('#')
RECURSIVE LStripHash(_)
LStripHash(t) == IF t # <<>> /\ Head(t) = "#" THEN LStripHash(Tail(t)) ELSE t

\* _get_page_metadata(chunk_text, full_text, pages)
GetPageMetadata(chunk_text, full_text, ps) ==
    IF ps = <<>> THEN EmptyMeta
    ELSE LET first == PyFind(full_text, chunk_text, 0)
             start_index == IF first = -1
                            THEN PyFind(full_text, PySlice(chunk_text, 0, PrefixLen), 0)
                            ELSE first
         IN  IF start_index = -1 THEN EmptyMeta
             ELSE PageMeta(ChunkPagesOnce(BuildPageMap(ps), start_index,
                                          start_index + Len(chunk_text), <<>>))

\* {"section": current_section, **page metadata}
SectionMeta(current_section, page_meta) ==
    IF "page_numbers" \in DOMAIN page_meta
    THEN [section |-> current_section, page_numbers |-> page_meta.page_numbers]
    ELSE [section |-> current_section]

Introduction == <<"I", "n", "t", "r", "o", "d", "u", "c", "t", "i", "o", "n">>

\* The loop over range(1, len(splits), 2): the (header, content) pairs.
RECURSIVE HeaderChunks(_, _, _, _)
HeaderChunks(splits, i, full_text, ps) ==
    IF i > Len(splits) THEN <<>>
    ELSE LET header == Strip(splits[i])
             content == IF i + 1 <= Len(splits) THEN Strip(splits[i + 1]) ELSE <<>>
             current_section == Strip(LStripHash(header))
             full_chunk_text == header \o <<NL>> \o content
         IN  <<[text |-> full_chunk_text,
                metadata |-> SectionMeta(current_section,
                                GetPageMetadata(full_chunk_text, full_text, ps))]>>
             \o HeaderChunks(splits, i + 2, full_text, ps)

\* chunk(text, pages) of the Hierarchical strategy.
HierarchicalChunk(t, ps, lvl) ==
    IF EmptyText(t) THEN <<>>
    ELSE LET splits == HeaderSplit(t, 1, 1, lvl)
         IN  (IF Strip(splits[1]) # <<>>
              THEN <<[text |-> Strip(splits[1]),
                      metadata |-> SectionMeta(Introduction,
                                      GetPageMetadata(splits[1], t, ps))]>>
              ELSE <<>>)
             \o HeaderChunks(splits, 2, t, ps)

HierLetters == {"a", "#", " ", NL}
HierTexts == SeqsUpTo(HierLetters, MaxHierLen)

InitHier ==
    /\ \E lvl \in 1..MaxSplitLevel : strategy = HierarchicalStrategy(lvl)
    /\ text \in HierTexts
    /\ pages \in {<<>>, <<[page_number |-> 1, text |-> text]>>}
    /\ LocalsInit

\* chunk() of the Hierarchical strategy, from call to return.
HierChunk ==
    /\ pc = "ready"
    /\ strategy.name = "hierarchical"
    /\ chunks' = HierarchicalChunk(text, pages, strategy.split_level)
    /\ pc' = "done"
    /\ UNCHANGED <<inputVars, page_map, start, spans, error, recVars, semVars>>

NextHier == HierChunk

SpecHier == InitHier /\ [][NextHier]_vars

\* ------------------------------------------------------------ ChunkFactory
StrategyNames ==
    {"character", "paragraph", "sentence", "semantic", "recursive", "hierarchical"}

DefaultChunkSize == 1000
DefaultChunkOverlap == 200
DefaultMinChunkSize == 100
DefaultSentencesPerChunk == 5
DefaultSentenceOverlap == 1
DefaultSplitLevel == 2
\* 0.8, in 25ths
DefaultThreshold == 20

EmptyConfig == [k \in {} |-> 0]

\* config.get(key, default)
ConfigGet(config, key, default) ==
    IF key \in DOMAIN config THEN config[key] ELSE default

Raised(e) == [ok |-> FALSE, error |-> e]
Built(st) == [ok |-> TRUE, strategy |-> st]

\* ChunkFactory.get_strategy(strategy_type, config, embedding_provider)
GetStrategy(strategy_type, config, embedding_provider) ==
    IF strategy_type = "character"
    THEN Built(CharacterStrategy(ConfigGet(config, "chunk_size", DefaultChunkSize),
                                 ConfigGet(config, "chunk_overlap", DefaultChunkOverlap)))
    ELSE IF strategy_type = "paragraph"
    THEN Built(ParagraphStrategy(ConfigGet(config, "min_chunk_size", DefaultMinChunkSize)))
    ELSE IF strategy_type = "sentence"
    THEN Built(SentenceStrategy(
                   ConfigGet(config, "sentences_per_chunk", DefaultSentencesPerChunk),
                   ConfigGet(config, "overlap", DefaultSentenceOverlap)))
    ELSE IF strategy_type = "semantic"
    THEN IF embedding_provider = "none"
         THEN Raised("ValueError")
         ELSE Built(SemanticStrategy(embedding_provider,
                                     ConfigGet(config, "threshold", DefaultThreshold)))
    ELSE IF strategy_type = "recursive"
    THEN Built(RecursiveStrategy(ConfigGet(config, "chunk_size", DefaultChunkSize),
                                 ConfigGet(config, "chunk_overlap", DefaultChunkOverlap),
                                 ConfigGet(config, "separators", DefaultSeparators)))
    ELSE IF strategy_type = "hierarchical"
    THEN Built(HierarchicalStrategy(ConfigGet(config, "split_level", DefaultSplitLevel)))
    ELSE Raised("ValueError")

\* --------------------------- a get_strategy() call followed by chunk()
RequestedNames == StrategyNames \cup {"", "Character", "token"}
Configs ==
    {EmptyConfig,
     [chunk_size |-> 0],
     [chunk_size |-> 2],
     [chunk_size |-> 2, chunk_overlap |-> 1],
     [min_chunk_size |-> 3],
     [sentences_per_chunk |-> 1, overlap |-> 0],
     [threshold |-> 15],
     [split_level |-> 1]}
ApiLetters == {"a", ".", " "}
ApiTexts == SeqsUpTo(ApiLetters, MaxApiLen)
ApiPageLists ==
    {<<>>,
     <<[page_number |-> 1, text |-> <<"a">>]>>,
     <<[page_number |-> 1, text |-> <<"a">>], [page_number |-> 2, text |-> <<".">>]>>}

NoStrategy == [name |-> "none"]

Init ==
    /\ request \in [strategy_type : RequestedNames, config : Configs,
                    embedding_provider : {"none", "provider"}]
    /\ strategy = NoStrategy
    /\ text \in ApiTexts
    /\ pages \in ApiPageLists
    /\ pc = "factory"
    /\ other = NoOther
    /\ EnvInit
    /\ page_map = <<>>
    /\ start = 0
    /\ final_chunks = <<>>
    /\ current_search_start = 0
    /\ sentences = <<>>
    /\ embeddings = <<>>
    /\ chunks = <<>>
    /\ spans = <<>>
    /\ calls = <<>>
    /\ error = "none"

\* The get_strategy() call of the request: the strategy it returns, or the
\* exception it raises.
Factory ==
    /\ pc = "factory"
    /\ LET r == GetStrategy(request.strategy_type, request.config,
                            request.embedding_provider)
       IN  IF r.ok
           THEN strategy' = r.strategy /\ pc' = "ready" /\ error' = error
           ELSE strategy' = strategy /\ pc' = "failed" /\ error' = r.error
    /\ UNCHANGED <<request, text, pages, other, envVars, page_map, start, chunks,
                   spans, recVars, semVars>>

Next ==
    \/ Factory
    \/ CharStart \/ CharIter
    \/ ParChunk
    \/ SentChunk
    \/ RecStart \/ RecLocate
    \/ HierChunk
    \/ SemStart \/ SemReply \/ SemFail

Spec == Init /\ [][Next]_vars

\* ------------------------------------------- claims on every strategy
\* C4: chunk("", pages) returns the empty chunk list for each of the six
\* strategies and any pages, and Semantic makes no call on the embedding
\* provider for it.
C4_EmptyTextNoChunks ==
    (text = <<>> /\ strategy.name \in StrategyNames /\ pc # "ready") =>
        /\ pc = "done"
        /\ chunks = <<>>
        /\ calls = <<>>
        /\ error = "none"

C4_Witness ==
    /\ text = <<>> /\ pages # <<>>
    /\ strategy.name = "semantic"
    /\ pc = "done"
    /\ chunks = <<>>

\* C10: get_strategy fails with ConfigurationError for every name outside the
\* six strategy names and for "semantic" without an embedding provider; for
\* every other input it returns a strategy whose name is the requested name.
C10_FactoryConfigurationError ==
    pc # "factory" =>
        IF \/ request.strategy_type \notin StrategyNames
           \/ (request.strategy_type = "semantic"
               /\ request.embedding_provider = "none")
        THEN pc = "failed" /\ error = "ConfigurationError"
        ELSE strategy.name = request.strategy_type

\* C11: constructing a strategy with a malformed configuration value, in
\* particular a chunk_size <= 0 for Character or Recursive, fails with
\* ValidationError at construction time, so chunk() is never run with a
\* non-positive chunk_size.
C11_NonPositiveChunkSizeRejected ==
    (/\ pc # "factory"
     /\ request.strategy_type \in {"character", "recursive"}
     /\ "chunk_size" \in DOMAIN request.config
     /\ request.config["chunk_size"] <= 0) =>
        pc = "failed" /\ error = "ValidationError"

\* ------------------------------------------------- claims on Paragraph
IsPar == strategy.name = "paragraph"

\* The non-blank paragraphs of the text, in order.
NonBlankParagraphs == SelectSeq(PySplit(text, <<NL, NL>>), StripNonEmpty)

\* The paragraphs held by the k-th returned chunk.
ChunkParagraphs(k) == PySplit(chunks[k].text, <<NL, NL>>)

RECURSIVE ParagraphsOfChunks(_)
ParagraphsOfChunks(k) ==
    IF k > Len(chunks) THEN <<>>
    ELSE ChunkParagraphs(k) \o ParagraphsOfChunks(k + 1)

\* C12: Paragraph chunk() puts every non-blank paragraph in exactly one chunk,
\* in order; a paragraph p is merged into the current chunk iff
\* len(current chunk) + 2 + len(p) < min_chunk_size, otherwise the current
\* chunk is flushed and p starts a new one. Hence two non-blank paragraphs
\* with len(p1) + 2 + len(p2) >= min_chunk_size give exactly 2 chunks, one per
\* paragraph.
C12_ParagraphMergeRule ==
    (IsPar /\ pc = "done") =>
        LET mcs == strategy.min_chunk_size
            paras == NonBlankParagraphs
        IN  /\ ParagraphsOfChunks(1) = paras
            /\ \A k \in 1..Len(chunks) :
                   LET cp == ChunkParagraphs(k)
                   IN  \A j \in 2..Len(cp) :
                           Len(PyJoin(<<NL, NL>>, SubSeq(cp, 1, j - 1)))
                               + 2 + Len(cp[j]) < mcs
            /\ \A k \in 1..(Len(chunks) - 1) :
                   Len(chunks[k].text) + 2 + Len(Head(ChunkParagraphs(k + 1)))
                       >= mcs
            /\ (Len(paras) = 2 /\ Len(paras[1]) + 2 + Len(paras[2]) >= mcs) =>
                   /\ Len(chunks) = 2
                   /\ chunks[1].text = paras[1]
                   /\ chunks[2].text = paras[2]

\* Two paragraphs whose combined length is exactly min_chunk_size: two chunks.
C12_Witness ==
    /\ IsPar /\ pc = "done"
    /\ Len(NonBlankParagraphs) = 2
    /\ Len(chunks) = 2
    /\ Len(chunks[1].text) + 2 + Len(chunks[2].text) = strategy.min_chunk_size

\* C24: Paragraph chunk() loses and duplicates no paragraph: the paragraphs
\* of the emitted chunks, read chunk after chunk, are the non-blank paragraphs
\* of the input, each once and in input order; no chunk is empty; the final
\* in-progress chunk is emitted even when shorter than min_chunk_size, so a
\* text with at least one non-blank paragraph yields at least one chunk whose
\* last paragraph is the last non-blank paragraph of the input.
C24_NoParagraphLost ==
    (IsPar /\ pc = "done") =>
        LET paras == NonBlankParagraphs
        IN  /\ Len(ParagraphsOfChunks(1)) = Len(paras)
            /\ \A j \in 1..Len(paras) : ParagraphsOfChunks(1)[j] = paras[j]
            /\ \A k \in 1..Len(chunks) : StripNonEmpty(chunks[k].text)
            /\ paras # <<>> =>
                   /\ Len(chunks) >= 1
                   /\ LET cp == ChunkParagraphs(Len(chunks))
                      IN  cp[Len(cp)] = paras[Len(paras)]
            /\ paras = <<>> => chunks = <<>>

\* Two chunks, a blank paragraph skipped, and a final chunk shorter than
\* min_chunk_size.
C24_Witness ==
    /\ IsPar /\ pc = "done"
    /\ Len(chunks) = 2
    /\ Len(PySplit(text, <<NL, NL>>)) > Len(NonBlankParagraphs)
    /\ Len(chunks[2].text) < strategy.min_chunk_size

\* -------------------------------------------------- claims on Sentence
IsSent == strategy.name = "sentence"

\* The text of the window of sentences i+1 .. e (0-based [i, e)).
WindowText(i, e) == PyJoin(<<" ">>, [j \in 1..(e - i) |-> sentences[i + j].text])

\* C13: for a text with n > sentences_per_chunk sentences and any overlap >= 0,
\* Sentence chunk() returns, the stride max(1, sentences_per_chunk - overlap)
\* is at least 1, and the chunks are the windows of consecutive sentences
\* starting at sentence indices 0, stride, 2*stride, ... below n, each holding
\* at most sentences_per_chunk sentences joined by one space; with
\* sentences_per_chunk = 1 there is one chunk per sentence.
C13_SentenceWindows ==
    (IsSent /\ pc = "done" /\ Len(sentences) > strategy.sentences_per_chunk) =>
        LET spc == strategy.sentences_per_chunk
            n == Len(sentences)
            stride == Max(1, spc - strategy.overlap)
            count == (n + stride - 1) \div stride
        IN  /\ SentStride(spc, strategy.overlap) >= 1
            /\ Len(chunks) = count
            /\ \A k \in 1..count :
                   LET i == (k - 1) * stride
                       e == Min(i + spc, n)
                   IN  /\ e - i <= spc
                       /\ chunks[k].text = WindowText(i, e)
            /\ spc = 1 => Len(chunks) = n

\* A five-sentence text with sentences_per_chunk = 1 and overlap >=
\* sentences_per_chunk: five chunks.
C13_Witness ==
    /\ IsSent /\ pc = "done"
    /\ strategy.sentences_per_chunk = 1
    /\ strategy.overlap >= 1
    /\ Len(sentences) = 5
    /\ Len(chunks) = 5

\* C14: for every strategy, when chunk() is called with pages absent or empty,
\* every emitted chunk's metadata either has no page_numbers key or has
\* page_numbers equal to the empty list, and the call does not fail: the only
\* failures are the factory's and the embedding provider's.
C14_NoPagesNoPageNumbers ==
    (pages = <<>> /\ strategy.name \in StrategyNames) =>
        /\ \A k \in 1..Len(chunks) :
               \/ "page_numbers" \notin DOMAIN chunks[k].metadata
               \/ chunks[k].metadata["page_numbers"] = <<>>
        /\ pc = "failed" =>
               /\ calls # <<>>
               /\ calls[Len(calls)].outcome \in ProviderErrors

\* A strategy built by the factory returned chunks for a text without pages.
C14_Witness ==
    /\ pages = <<>>
    /\ pc = "done"
    /\ strategy.name = "character"
    /\ chunks # <<>>
    /\ chunks[1].metadata["page_numbers"] = <<>>

\* ------------------------------ two callers of chunk() on one instance
\* The locals of the running invocation of chunk().
Locals ==
    [text |-> text, pages |-> pages, pc |-> pc, page_map |-> page_map,
     start |-> start, final_chunks |-> final_chunks,
     current_search_start |-> current_search_start, sentences |-> sentences,
     embeddings |-> embeddings, chunks |-> chunks, spans |-> spans,
     calls |-> calls, error |-> error]

FreshLocals(t, ps) ==
    [text |-> t, pages |-> ps, pc |-> "ready", page_map |-> <<>>, start |-> 0,
     final_chunks |-> <<>>, current_search_start |-> 0, sentences |-> <<>>,
     embeddings |-> <<>>, chunks |-> <<>>, spans |-> <<>>, calls |-> <<>>,
     error |-> "none"]

InFlight(p) == p \in {"loop", "locate", "awaiting"}

ConcStrategies ==
    {CharacterStrategy(2, 1), CharacterStrategy(1, 0),
     RecursiveStrategy(2, 1, DefaultSeparators),
     ParagraphStrategy(4),
     SentenceStrategy(1, 0),
     HierarchicalStrategy(1),
     SemanticStrategy("provider", DefaultThreshold)}

TwoPages == <<[page_number |-> 1, text |-> <<"a", "a">>],
              [page_number |-> 2, text |-> <<"a">>]>>

ConcInputs ==
    {[text |-> <<"a", " ", "a", " ", "a">>, pages |-> <<>>],
     [text |-> JoinPages(TwoPages), pages |-> TwoPages],
     [text |-> <<".", " ", ".">>, pages |-> <<>>],
     [text |-> <<"#", " ", "a">>, pages |-> <<>>]}

InitConc ==
    /\ request = "direct"
    /\ EnvInit
    /\ strategy \in ConcStrategies
    /\ \E mine \in ConcInputs, theirs \in ConcInputs :
           /\ text = mine.text
           /\ pages = mine.pages
           /\ other = [id |-> 2, overlapped |-> FALSE,
                       locals |-> FreshLocals(theirs.text, theirs.pages)]
    /\ pc = "ready"
    /\ page_map = <<>>
    /\ start = 0
    /\ final_chunks = <<>>
    /\ current_search_start = 0
    /\ sentences = <<>>
    /\ embeddings = <<>>
    /\ chunks = <<>>
    /\ spans = <<>>
    /\ calls = <<>>
    /\ error = "none"

StartShared(mine, theirs) == mine

\* start is a local of chunk(): the resumed invocation sees its own.
StartAfterSwitch(mine, theirs) == theirs

\* The scheduler suspends the running invocation and resumes the other one.
\* The strategy instance is the only thing the two invocations share.
Switch ==
    /\ other # NoOther
    /\ other' = [id |-> 3 - other.id,
                 overlapped |-> other.overlapped
                                \/ (InFlight(pc) /\ InFlight(other.locals.pc)),
                 locals |-> Locals]
    /\ text' = other.locals.text
    /\ pages' = other.locals.pages
    /\ pc' = other.locals.pc
    /\ page_map' = other.locals.page_map
    /\ start' = StartAfterSwitch(start, other.locals.start)
    /\ final_chunks' = other.locals.final_chunks
    /\ current_search_start' = other.locals.current_search_start
    /\ sentences' = other.locals.sentences
    /\ embeddings' = other.locals.embeddings
    /\ chunks' = other.locals.chunks
    /\ spans' = other.locals.spans
    /\ calls' = other.locals.calls
    /\ error' = other.locals.error
    /\ UNCHANGED <<request, strategy, envVars>>

NextConc ==
    \/ Switch
    \/ CharStart \/ CharIter
    \/ ParChunk
    \/ SentChunk
    \/ RecStart \/ RecLocate
    \/ HierChunk
    \/ SemStart \/ SemReply \/ SemFail

SpecConc == InitConc /\ [][NextConc]_vars

\* chunk() of the Character strategy run from call to return: the while loop
\* from window start s.
RECURSIVE CharLoop(_, _, _, _, _)
CharLoop(t, pm, cs, co, s) ==
    IF s < Len(t)
    THEN LET end == s + cs
             chunk_text == PySlice(t, s, end)
             chunk_end == s + Len(chunk_text)
             chunk_pages == IF pm # <<>> THEN ChunkPages(pm, s, chunk_end) ELSE <<>>
             c == [text |-> chunk_text, metadata |-> PageMeta(chunk_pages)]
         IN  IF end >= Len(t) THEN <<c>>
             ELSE <<c>> \o CharLoop(t, pm, cs, co, s + CharStride(cs, co))
    ELSE <<>>

CharacterChunk(t, ps, cs, co) ==
    IF EmptyText(t) THEN <<>>
    ELSE CharLoop(t, IF ps # <<>> THEN BuildPageMap(ps) ELSE <<>>, cs, co, 0)

\* chunk() of the Recursive strategy run from call to return: the for loop
\* over final_chunks fc with the cursor css.
RECURSIVE LocateLoop(_, _, _, _)
LocateLoop(t, pm, fc, css) ==
    IF fc = <<>> THEN <<>>
    ELSE LET chunk_text == Head(fc)
             found == PyFind(t, chunk_text, css)
             start_index == IF found = -1 THEN PyFind(t, chunk_text, 0) ELSE found
             chunk_pages == IF pm # <<>>
                            THEN ChunkPages(pm, start_index,
                                            start_index + Len(chunk_text))
                            ELSE <<>>
         IN  IF start_index # -1
             THEN <<[text |-> chunk_text, metadata |-> PageMeta(chunk_pages)]>>
                  \o LocateLoop(t, pm, Tail(fc), Max(css, start_index + 1))
             ELSE <<[text |-> chunk_text, metadata |-> EmptyMeta]>>
                  \o LocateLoop(t, pm, Tail(fc), css)

RecursiveChunk(t, ps, seps, cs, co) ==
    IF EmptyText(t) THEN <<>>
    ELSE LocateLoop(t, IF ps # <<>> THEN BuildPageMap(ps) ELSE <<>>,
                    SplitText(t, seps, cs, co), 0)

\* chunk() of the Semantic strategy run from call to return, the provider
\* having answered embs.
SemanticChunk(t, ps, thr, embs) ==
    LET ss == SplitSentences(t)
    IN  IF EmptyText(t) THEN <<>>
        ELSE IF Len(ss) < 2
        THEN <<[text |-> t, metadata |-> GetChunkMetadata(t, t, ps)]>>
        ELSE SemLoop(ss, embs, 2, <<ss[1]>>, <<>>, t,
                     [pages |-> ps, threshold |-> thr])

\* What chunk(text, pages) returns on strategy st when it runs alone (for
\* Semantic: when the provider answers embs).
AloneChunks(st, l) ==
    IF st.name = "character"
    THEN CharacterChunk(l.text, l.pages, st.chunk_size, st.chunk_overlap)
    ELSE IF st.name = "recursive"
    THEN RecursiveChunk(l.text, l.pages, st.separators, st.chunk_size,
                        st.chunk_overlap)
    ELSE IF st.name = "paragraph"
    THEN ParagraphChunk(l.text, l.pages, st.min_chunk_size).chunks
    ELSE IF st.name = "sentence"
    THEN SentenceChunk(l.text, l.pages, st.sentences_per_chunk, st.overlap).chunks
    ELSE IF st.name = "hierarchical"
    THEN HierarchicalChunk(l.text, l.pages, st.split_level)
    ELSE SemanticChunk(l.text, l.pages, st.threshold, l.embeddings)

\* The inputs of the two invocations, by invocation.
InvocationInputs ==
    {[id |-> 3 - other.id, text |-> text, pages |-> pages],
     [id |-> other.id, text |-> other.locals.text, pages |-> other.locals.pages]}

ReturnedAlone(l) == l.pc = "done" => l.chunks = AloneChunks(strategy, l)

\* C15: chunk() never modifies the strategy instance's configuration fields
\* nor its text and pages inputs, so each of two invocations of chunk() on the
\* same instance, interleaved in any order, returns the chunk list it returns
\* when run alone on the same input.
C15_InterleavedInvocations ==
    /\ [](other # NoOther => (ReturnedAlone(Locals) /\ ReturnedAlone(other.locals)))
    /\ [][other # NoOther =>
              (strategy' = strategy /\ InvocationInputs' = InvocationInputs)]_vars

\* Both invocations returned several chunks after having been in their loops
\* at the same time.
C15_Witness ==
    /\ other # NoOther
    /\ other.overlapped
    /\ pc = "done" /\ other.locals.pc = "done"
    /\ text # other.locals.text
    /\ Len(chunks) > 1 /\ Len(other.locals.chunks) > 1

\* ------------------------------------------------- metrics of /chunk
RECURSIVE Sum(_)
Sum(sizes) == IF sizes = <<>> THEN 0 ELSE Head(sizes) + Sum(Tail(sizes))

SeqMin(sizes) == CHOOSE m \in {sizes[i] : i \in 1..Len(sizes)} :
                     \A i \in 1..Len(sizes) : m <= sizes[i]
SeqMax(sizes) == CHOOSE m \in {sizes[i] : i \in 1..Len(sizes)} :
                     \A i \in 1..Len(sizes) : m >= sizes[i]

\* a quotient num / den, kept exact
Ratio(num, den) == [num |-> num, den |-> den]
Zero == Ratio(0, 1)

AvgSizeSmoothed(sizes) ==
    IF sizes # <<>> THEN Ratio(Sum(sizes), Len(sizes) + 1) ELSE Zero

\* sum(sizes) / len(sizes) if sizes else 0
AvgSize(sizes) ==
    IF sizes # <<>> THEN Ratio(Sum(sizes), Len(sizes)) ELSE Zero

\* The metrics dict of chunk_text over the chunk list cs.
ComputeMetrics(cs) ==
    LET sizes == [i \in 1..Len(cs) |-> Len(cs[i].text)]
    IN  [total_chunks |-> Len(cs),
         avg_size |-> AvgSize(sizes),
         min_size |-> IF sizes # <<>> THEN SeqMin(sizes) ELSE 0,
         max_size |-> IF sizes # <<>> THEN SeqMax(sizes) ELSE 0]

MetricTexts == SeqsUpTo({"a"}, MaxMetricLen)
MetricChunkLists ==
    UNION {[1..n -> {[text |-> t, metadata |-> EmptyMeta] : t \in MetricTexts}] :
               n \in 0..MaxMetricChunks}

\* A chunk list returned by some strategy, before its metrics are computed.
InitMetrics ==
    /\ request = "direct"
    /\ other = NoOther
    /\ strategy = NoStrategy
    /\ text = <<>>
    /\ pages = <<>>
    /\ pc = "done"
    /\ page_map = <<>>
    /\ start = 0
    /\ final_chunks = <<>>
    /\ current_search_start = 0
    /\ sentences = <<>>
    /\ embeddings = <<>>
    /\ chunks \in MetricChunkLists
    /\ spans = <<>>
    /\ calls = <<>>
    /\ error = "none"
    /\ EnvInit

\* chunk_text computes the metrics over the chunk list (here: once more).
Metrics ==
    /\ pc = "done"
    /\ Len(metrics) < 2
    /\ metrics' = Append(metrics, ComputeMetrics(chunks))
    /\ UNCHANGED <<request, strategy, text, pages, other, pc, page_map, start,
                   chunks, spans, error, recVars, semVars, fileVars, stack>>

NextMetrics == Metrics

SpecMetrics == InitMetrics /\ [][NextMetrics]_vars

\* a <= b for quotients with positive denominators
RatioLeq(a, b) == a.num * b.den <= b.num * a.den

\* C16: the metrics computed over any chunk list satisfy total_chunks ==
\* len(chunks) and min_size <= avg_size <= max_size, sizes being chunk text
\* lengths; all four values are 0 for the empty list; computing the metrics
\* twice over the same list gives identical results.
C16_Metrics ==
    /\ \A i \in 1..Len(metrics) :
           LET m == metrics[i]
           IN  /\ m.total_chunks = Len(chunks)
               /\ RatioLeq(Ratio(m.min_size, 1), m.avg_size)
               /\ RatioLeq(m.avg_size, Ratio(m.max_size, 1))
               /\ \A k \in 1..Len(chunks) :
                      m.min_size <= Len(chunks[k].text)
                      /\ Len(chunks[k].text) <= m.max_size
               /\ chunks = <<>> =>
                      /\ m.total_chunks = 0 /\ m.min_size = 0 /\ m.max_size = 0
                      /\ m.avg_size.num = 0
    /\ Len(metrics) = 2 => metrics[1] = metrics[2]

\* Metrics computed twice over chunks of different sizes.
C16_Witness ==
    /\ Len(metrics) = 2
    /\ Len(chunks) = 3
    /\ metrics[2].min_size < metrics[2].max_size
    /\ metrics[2].avg_size.num = 5

\* ------------------------------------------------------ file management
chunkVars == <<request, strategy, text, pages, other, pc, page_map, start,
               final_chunks, current_search_start, sentences, embeddings,
               chunks, spans, calls, error, metrics, stack>>

\* uuid4 values
IdNames == <<"f1", "f2", "f3", "f4">>
FileIds == {IdNames[i] : i \in 1..Min(MaxFiles, Len(IdNames))}
Filenames == {"a.txt"}

\* A path: absolute or relative to the working directory, and its components.
RelPath(parts) == [abs |-> FALSE, parts |-> parts]

\* os.path.join(a, b)
PathJoin(a, b) == IF b.abs THEN b ELSE [abs |-> a.abs, parts |-> a.parts \o b.parts]

\* LocalFileStorageProvider().base_dir
BaseDir == RelPath(<<"backend", "data", "uploads">>)

\* LocalFileStorageProvider.save: the path written and returned
SavePath(filename) == PathJoin(BaseDir, RelPath(<<filename>>))

\* LocalFileStorageProvider.delete: the path looked up and removed
DeletePath(path) == IF ~path.abs THEN PathJoin(BaseDir, path) ELSE path

StorageDelete(d, path) ==
    LET p == DeletePath(path)
    IN  IF p \in d THEN [disk |-> d \ {p}, result |-> TRUE]
        ELSE [disk |-> d, result |-> FALSE]

\* Database.get_file
GetFile(file_id) ==
    LET found == SelectSeq(db_files, LAMBDA r : r.id = file_id)
    IN  IF found = <<>> THEN <<>> ELSE <<found[1]>>

Reverse(seq) == [i \in 1..Len(seq) |-> seq[Len(seq) + 1 - i]]

\* Database.list_files(status): newest first; a falsy status lists all
ListFiles(status) ==
    Reverse(IF status # "" THEN SelectSeq(db_files, LAMBDA r : r.status = status)
            ELSE db_files)

NoStatusFilter == ""

\* a list endpoint whose status parameter defaults to no filter
DefaultStatusFilterNone == ""

\* the default of the status parameter of GET /files
DefaultStatusFilter == "chunked"

\* Database.update_file_status for each id of fids
UpdateStatus(files, fids, status) ==
    [i \in 1..Len(files) |->
        IF files[i].id \in fids THEN [files[i] EXCEPT !.status = status]
        ELSE files[i]]

\* ChromaStore.delete_by_metadata(key=value)
DeleteByMetadata(vs, key, value) ==
    SelectSeq(vs, LAMBDA m : ~(key \in DOMAIN m /\ m[key] = value))

NoMeta == [k \in {} |-> ""]
ChunkMetas == {NoMeta} \cup {[file_id |-> f] : f \in FileIds}
BaseMetas ==
    {NoMeta} \cup {[source |-> n] : n \in Filenames}
             \cup {[source |-> n, file_id |-> f] : n \in Filenames, f \in FileIds}
StoreEntries == [chunk_meta : ChunkMetas, base_meta : BaseMetas]
StoreRequests == UNION {[1..n -> StoreEntries] : n \in 1..MaxStoreChunks}

InitFiles ==
    /\ request = "direct"
    /\ other = NoOther
    /\ strategy = NoStrategy
    /\ text = <<>>
    /\ pages = <<>>
    /\ pc = "idle"
    /\ page_map = <<>>
    /\ start = 0
    /\ final_chunks = <<>>
    /\ current_search_start = 0
    /\ sentences = <<>>
    /\ embeddings = <<>>
    /\ chunks = <<>>
    /\ spans = <<>>
    /\ calls = <<>>
    /\ error = "none"
    /\ EnvInit

\* POST /extract: FileService.upload_file saves the file under a new id and
\* records it with status 'uploaded'.
Upload ==
    /\ pc = "idle"
    /\ \E id \in FileIds \ hist.uploaded, fname \in Filenames :
           LET saved_path == SavePath(id)
           IN  /\ disk' = disk \cup {saved_path}
               /\ db_files' = Append(db_files,
                                     [id |-> id, filename |-> fname,
                                      physical_path |-> saved_path,
                                      status |-> "uploaded"])
               /\ hist' = [hist EXCEPT !.uploaded = @ \cup {id}]
               /\ reply' = [op |-> "upload", file_id |-> id]
    /\ UNCHANGED <<chunkVars, vectors>>

\* merged = {**chunk_meta, **base_meta}
MergedMeta(entry) == entry.base_meta @@ entry.chunk_meta

\* the file ids collected from the final metadatas
FileIdsOf(metas) ==
    {metas[i]["file_id"] : i \in {j \in 1..Len(metas) : "file_id" \in DOMAIN metas[j]}}

\* POST /store, embeddings and add_documents succeeding: the vectors are
\* added and every file id carried by the metadata becomes 'chunked'.
Store ==
    /\ pc = "idle"
    /\ \E req \in StoreRequests :
           LET final_metadatas == [i \in 1..Len(req) |-> MergedMeta(req[i])]
               file_ids == FileIdsOf(final_metadatas)
           IN  /\ Len(vectors) + Len(req) <= MaxVectors
               /\ vectors' = vectors \o final_metadatas
               /\ db_files' = UpdateStatus(db_files, file_ids, "chunked")
               /\ hist' = [hist EXCEPT !.stored = @ \cup (file_ids \cap hist.uploaded)]
               /\ reply' = [op |-> "store", ok |-> TRUE]
    /\ UNCHANGED <<chunkVars, disk>>

\* POST /store, the provider or the vector store raising: HTTP 500, nothing
\* stored and no status updated.
StoreFail ==
    /\ pc = "idle"
    /\ reply' = [op |-> "store", ok |-> FALSE]
    /\ UNCHANGED <<chunkVars, db_files, disk, vectors, hist>>

VectorDeleteOutcomes == {"ok", "first_raises", "second_raises"}

\* FileService.delete_file(file_id, vector_store)
Delete ==
    /\ pc = "idle"
    /\ \E file_id \in FileIds, outcome \in VectorDeleteOutcomes :
           LET file_record == GetFile(file_id)
           IN  IF file_record = <<>>
               THEN /\ reply' = [op |-> "delete", file_id |-> file_id,
                                 result |-> FALSE,
                                 before |-> [db_files |-> db_files, disk |-> disk,
                                             vectors |-> vectors]]
                    /\ UNCHANGED <<db_files, disk, vectors, hist>>
               ELSE LET rec == file_record[1]
                        by_id == DeleteByMetadata(vectors, "file_id", file_id)
                    IN  /\ disk' = StorageDelete(disk, rec.physical_path).disk
                        /\ vectors' =
                               IF outcome = "ok"
                               THEN DeleteByMetadata(by_id, "source", rec.filename)
                               ELSE IF outcome = "second_raises" THEN by_id
                               ELSE vectors
                        /\ db_files' = SelectSeq(db_files, LAMBDA r : r.id # file_id)
                        /\ hist' = [hist EXCEPT !.deleted = @ \cup {file_id}]
                        /\ reply' = [op |-> "delete", file_id |-> file_id,
                                     result |-> TRUE,
                                     physical_path |-> rec.physical_path]
    /\ UNCHANGED chunkVars

NextFiles == Upload \/ Store \/ StoreFail \/ Delete

SpecFiles == InitFiles /\ [][NextFiles]_vars

\* --------------------------------------------- claims on file management
ListedIds(status) == {ListFiles(status)[i].id : i \in 1..Len(ListFiles(status))}

\* C17: after any sequence of upload, store and delete operations, a file is
\* returned by the default file listing (status filter 'chunked') if and
\* only if it was uploaded, a later store call succeeded with chunk metadata
\* carrying its file_id, and it has not been deleted; a file that was uploaded
\* but never stored (and not deleted) has status 'uploaded' and is not in the
\* default listing.
C17_DefaultListing ==
    pc = "idle" =>
        \A id \in FileIds :
            /\ id \in ListedIds(DefaultStatusFilter)
                   <=> (id \in hist.uploaded /\ id \in hist.stored
                        /\ id \notin hist.deleted)
            /\ (id \in hist.uploaded \ (hist.stored \cup hist.deleted)) =>
                   /\ GetFile(id) # <<>>
                   /\ GetFile(id)[1].status = "uploaded"
                   /\ id \notin ListedIds(DefaultStatusFilter)

\* One file uploaded and stored, one uploaded only, after a failed store.
C17_Witness ==
    /\ pc = "idle"
    /\ reply = [op |-> "store", ok |-> FALSE]
    /\ Cardinality(ListedIds(DefaultStatusFilter)) = 1
    /\ Cardinality(ListedIds(NoStatusFilter)) = 2
    /\ hist.deleted = {}

\* C18: after delete_file(file_id) returns True for an existing file, the
\* file's database record is gone (it appears in no listing), its physical
\* file is removed from storage, and no stored vector whose metadata file_id
\* equals that id remains; delete_file for an id with no database record
\* returns False and changes nothing.
C18_DeleteCascade ==
    reply.op = "delete" =>
        IF reply.result
        THEN /\ GetFile(reply.file_id) = <<>>
             /\ reply.file_id \notin ListedIds(NoStatusFilter)
             /\ reply.physical_path \notin disk
             /\ \A i \in 1..Len(vectors) :
                    ~("file_id" \in DOMAIN vectors[i]
                      /\ vectors[i]["file_id"] = reply.file_id)
        ELSE reply.before = [db_files |-> db_files, disk |-> disk,
                             vectors |-> vectors]

\* The stored vectors that carry the id of a recorded file other than file_id.
VectorsOfOthers(vs, files, file_id) ==
    SelectSeq(vs, LAMBDA m : /\ "file_id" \in DOMAIN m
                             /\ m["file_id"] # file_id
                             /\ \E i \in 1..Len(files) : files[i].id = m["file_id"])

\* C30: delete_file(file_id) leaves unchanged the database record, the
\* physical file and the stored vectors of every other file, also of another
\* uploaded file that has the same original filename as the deleted one.
C30_DeleteLeavesOtherFiles ==
    [][(Delete /\ reply'.op = "delete") =>
          LET file_id == reply'.file_id
          IN  /\ SelectSeq(db_files', LAMBDA r : r.id # file_id)
                     = SelectSeq(db_files, LAMBDA r : r.id # file_id)
              /\ \A i \in 1..Len(db_files) :
                     (db_files[i].id # file_id /\ db_files[i].physical_path \in disk)
                         => db_files[i].physical_path \in disk'
              /\ VectorsOfOthers(vectors', db_files, file_id)
                     = VectorsOfOthers(vectors, db_files, file_id)]_vars

\* ----------------------------------------- further claims on Recursive
\* C19: for Recursive chunk() with the default separators, any text,
\* chunk_size >= 1 and 0 <= chunk_overlap < chunk_size, every emitted chunk
\* has length <= chunk_size, including chunks that begin with parts carried
\* over as overlap from the previously flushed chunk.
C19_ChunksWithinChunkSize ==
    (/\ IsRec /\ pc = "done"
     /\ strategy.separators = DefaultSeparators
     /\ strategy.chunk_size >= 1
     /\ 0 <= strategy.chunk_overlap
     /\ strategy.chunk_overlap < strategy.chunk_size) =>
        \A k \in 1..Len(chunks) : Len(chunks[k].text) <= strategy.chunk_size

\* C21: in Recursive chunk() the search cursor never decreases, and the
\* positions at which successive chunks are located in the text are strictly
\* increasing: each located chunk starts at least one position after the
\* chunk located before it, also for overlapping or duplicate chunk texts.
\* Stated for the configurations with chunk_overlap < chunk_size.
C21_LocatedPositionsIncrease ==
    (/\ IsRec /\ pc \in {"locate", "done"}
     /\ strategy.chunk_overlap < strategy.chunk_size) =>
        \A k \in 1..(Len(spans) - 1) :
            (spans[k].start # -1 /\ spans[k + 1].start # -1) =>
                spans[k + 1].start >= spans[k].start + 1

\* C28: every chunk text emitted by Recursive chunk() is a contiguous
\* substring of the input text, so every chunk is located (from the cursor or
\* from the beginning) and its metadata always holds the page_numbers key:
\* the branch that emits empty metadata is never taken.
C28_ChunksAreSubstrings ==
    IsRec =>
        /\ \A k \in 1..Len(final_chunks) : Contains(text, final_chunks[k])
        /\ \A k \in 1..Len(chunks) :
               /\ Contains(text, chunks[k].text)
               /\ spans[k].start # -1
               /\ SubSeq(text, spans[k].start + 1, spans[k].end) = chunks[k].text
               /\ "page_numbers" \in DOMAIN chunks[k].metadata

\* Two chunks were located, the second one holding parts carried over from
\* the first and found only by the search from the beginning.
C28_Witness ==
    /\ IsRec /\ pc = "done"
    /\ Len(chunks) = 2
    /\ strategy.chunk_overlap > 0
    /\ spans[2].start < spans[1].end
    /\ Len(chunks[2].text) > Len(chunks[1].text)
    /\ PyFind(text, chunks[2].text, spans[1].start + 1) = -1

\* ------------------------- _split_text with its recursion made explicit
\* The activation of _split_text(t, separators) once the separator is picked
\* and the text is split: i is the 1-based index of the next split.
Frame(t, separators) ==
    LET pick == PickSeparator(t, separators, 1)
    IN  [text |-> t, separators |-> separators,
         separator |-> pick.separator, new_separators |-> pick.new_separators,
         splits |-> Splits(t, pick.separator), i |-> 1,
         st |-> [good_splits |-> <<>>, current_chunk |-> <<>>, current_length |-> 0]]

\* "Add remaining" and the return value of an activation.
FrameResult(f) ==
    IF f.st.current_chunk # <<>>
    THEN LET doc == PyJoin(f.separator, f.st.current_chunk)
         IN  f.st.good_splits \o (IF StripNonEmpty(doc) THEN <<doc>> ELSE <<>>)
    ELSE f.st.good_splits

\* the split of the running activation recurses: it overflows the current
\* chunk, is itself longer than chunk_size, and separators remain
Recurses(f, cs) ==
    LET split == f.splits[f.i]
        sep_len == IF f.st.current_chunk # <<>> THEN Len(f.separator) ELSE 0
    IN  /\ f.st.current_length + Len(split) + sep_len > cs
        /\ Len(split) > cs
        /\ f.new_separators # <<>>

SplitTexts == SeqsUpTo(RecLetters, MaxSplitLen)

\* No strategy constructed and no call made yet.
InitSplit ==
    /\ strategy = NoStrategy
    /\ text = <<>>
    /\ pages = <<>>
    /\ LocalsInit

\* A caller constructs a Recursive strategy and calls chunk(t).
SplitCall ==
    /\ pc = "ready"
    /\ strategy = NoStrategy
    /\ \E cs \in 1..MaxSplitChunkSize, co \in 0..MaxSplitOverlap,
          seps \in RecSeparatorLists :
           strategy' = RecursiveStrategy(cs, co, seps)
    /\ text' \in SplitTexts
    /\ UNCHANGED <<request, pages, other, metrics, fileVars, stack, pc, page_map,
                   start, chunks, spans, error, recVars, semVars>>

\* chunk() up to the call self._split_text(text, self.separators)
SplitEnter ==
    /\ pc = "ready"
    /\ strategy.name = "recursive"
    /\ IF EmptyText(text)
       THEN pc' = "done" /\ stack' = stack
       ELSE pc' = "splitting" /\ stack' = <<Frame(text, strategy.separators)>>
    /\ UNCHANGED <<request, strategy, text, pages, other, metrics, fileVars,
                   page_map, start, chunks, spans, error, recVars, semVars>>

\* One iteration of the merge loop of the innermost activation; an
\* iteration that recurses flushes and calls _split_text on the split.
SplitIter ==
    /\ pc = "splitting"
    /\ LET d == Len(stack)
           f == stack[d]
       IN  /\ f.i <= Len(f.splits)
           /\ IF Recurses(f, strategy.chunk_size)
              THEN /\ d < MaxStackDepth
                   /\ stack' = Append(
                          [stack EXCEPT ![d].st =
                               Flush(f.st, f.separator, strategy.chunk_overlap)],
                          Frame(f.splits[f.i], f.new_separators))
              ELSE stack' = [stack EXCEPT
                                ![d].st = MergeStep(f.st, f.splits[f.i], f.separator,
                                                    f.new_separators,
                                                    strategy.chunk_size,
                                                    strategy.chunk_overlap),
                                ![d].i = f.i + 1]
    /\ UNCHANGED <<request, strategy, text, pages, other, metrics, fileVars, pc,
                   page_map, start, chunks, spans, error, recVars, semVars>>

\* The innermost activation returns: to chunk() (final_chunks) or to the
\* activation that called it, which extends good_splits and starts afresh.
SplitReturn ==
    /\ pc = "splitting"
    /\ LET d == Len(stack)
           f == stack[d]
       IN  /\ f.i > Len(f.splits)
           /\ IF d = 1
              THEN /\ final_chunks' = FrameResult(f)
                   /\ stack' = <<>>
                   /\ pc' = "returned"
              ELSE /\ stack' = [SubSeq(stack, 1, d - 1) EXCEPT
                                   ![d - 1].st =
                                       [good_splits |-> stack[d - 1].st.good_splits
                                                        \o FrameResult(f),
                                        current_chunk |-> <<>>,
                                        current_length |-> 0],
                                   ![d - 1].i = stack[d - 1].i + 1]
                   /\ UNCHANGED <<final_chunks, pc>>
    /\ UNCHANGED <<request, strategy, text, pages, other, metrics, fileVars,
                   page_map, start, chunks, spans, error, current_search_start,
                   semVars>>

NextSplit == SplitCall \/ SplitEnter \/ SplitIter \/ SplitReturn

SpecSplit == InitSplit /\ [][NextSplit]_vars

\* The work left in the call of _split_text, as a number: one digit for every
\* possible depth, outermost first; the digit of an activation is the number
\* of splits its loop has still to visit, plus its return; the digit of a
\* depth with no activation is larger than that of any activation.
SplitRank ==
    IF pc # "splitting" THEN 0
    ELSE LET D == Len(strategy.separators)
             absent == Len(text) + 3
             digit(d) == IF d <= Len(stack)
                         THEN Len(stack[d].splits) - stack[d].i + 2
                         ELSE absent
         IN  Sum([d \in 1..D |-> digit(d) * (absent + 1) ^ (D - d)])

\* C20: Recursive _split_text terminates for every text and separator list:
\* each recursive call receives a strictly shorter separator list (the
\* separators after the chosen one), so the recursion depth is at most the
\* number of separators, and an activation whose separator is the empty
\* string never recurses. A running activation can always take its next
\* step, every step of the call strictly decreases SplitRank, a natural
\* number, and the call returns what the recursive definition gives.
C20_SplitTextTerminates ==
    /\ [](IsRec =>
            /\ Len(stack) <= Len(strategy.separators)
            /\ \A d \in 2..Len(stack) :
                   /\ Len(stack[d].separators) < Len(stack[d - 1].separators)
                   /\ \E k \in 1..Len(stack[d - 1].separators) :
                          /\ stack[d - 1].separators[k] = stack[d - 1].separator
                          /\ stack[d].separators =
                                 SubSeq(stack[d - 1].separators, k + 1,
                                        Len(stack[d - 1].separators))
                   /\ stack[d - 1].separator # <<>>
            /\ pc = "splitting" =>
                   /\ stack # <<>>
                   /\ SplitRank > 0
                   /\ \A d \in 1..Len(stack) :
                          /\ stack[d].i >= 1
                          /\ stack[d].i <= Len(stack[d].splits) + 1
                          /\ Len(stack[d].splits) <= Len(text) + 1
                   /\ LET f == stack[Len(stack)]
                      IN  (f.i <= Len(f.splits) /\ Recurses(f, strategy.chunk_size))
                              => Len(stack) < Len(strategy.separators)
            /\ pc = "returned" =>
                   final_chunks = SplitText(text, strategy.separators,
                                            strategy.chunk_size,
                                            strategy.chunk_overlap))
    /\ [][pc = "splitting" =>
              /\ pc' \in {"splitting", "returned"}
              /\ SplitRank' < SplitRank]_vars

\* Three nested activations: newline, then space, then the empty string.
C20_Witness ==
    /\ pc = "splitting"
    /\ Len(stack) = 3
    /\ stack[3].separator = <<>>

\* -------------------------------------------- the overlap carry-over
\* The iteration of the running activation overflows a non-empty chunk:
\* lines 132-134.
Overflows(f, cs) ==
    /\ f.i <= Len(f.splits)
    /\ f.st.current_chunk # <<>>
    /\ f.st.current_length + Len(f.splits[f.i]) + Len(f.separator) > cs

IsTrailingRun(c, flushed) ==
    /\ Len(c) <= Len(flushed)
    /\ c = SubSeq(flushed, Len(flushed) - Len(c) + 1, Len(flushed))

\* C22: in _split_text, after a running chunk is flushed on overflow, the
\* parts carried over to seed the next chunk are a trailing run of the
\* flushed parts, in their order, whose joined length (parts plus the
\* separators between them) is strictly less than chunk_overlap; with
\* chunk_overlap = 0 nothing is carried over.
C22_OverlapCarryOver ==
    [][(pc = "splitting" /\ Overflows(stack[Len(stack)], strategy.chunk_size)) =>
          LET d == Len(stack)
              f == stack[d]
              after == stack'[d].st.current_chunk
              carried == IF Recurses(f, strategy.chunk_size) THEN after
                         ELSE SubSeq(after, 1, Len(after) - 1)
          IN  /\ Len(stack') >= d
              /\ ~Recurses(f, strategy.chunk_size) =>
                     /\ after # <<>>
                     /\ after[Len(after)] = f.splits[f.i]
              /\ IsTrailingRun(carried, f.st.current_chunk)
              /\ carried # <<>> =>
                     Len(PyJoin(f.separator, carried)) < strategy.chunk_overlap
              /\ strategy.chunk_overlap = 0 => carried = <<>>]_vars

\* A chunk was flushed and a part of positive length was carried over: the
\* running chunk holds the carried part and the split that overflowed, and
\* the carried part ends the chunk flushed last.
C22_Witness ==
    /\ pc = "splitting"
    /\ LET f == stack[Len(stack)]
           cc == f.st.current_chunk
       IN  /\ f.i >= 3
           /\ Len(cc) >= 2
           /\ f.st.good_splits # <<>>
           /\ LET carried == PyJoin(f.separator, SubSeq(cc, 1, Len(cc) - 1))
                  last == f.st.good_splits[Len(f.st.good_splits)]
              IN  /\ carried # <<>>
                  /\ Len(carried) >= 1
                  /\ Len(last) > Len(carried)
                  /\ carried = SubSeq(last, Len(last) - Len(carried) + 1, Len(last))

\* ------------------------------------------------ claims on Hierarchical
IsHier == strategy.name = "hierarchical"

\* A header line of level 1..lvl starts at index i: i begins a line, and the
\* line holds 1 to lvl marker characters, then whitespace, then text.
IsHeaderLine(t, i, lvl) ==
    /\ i = 1 \/ t[i - 1] = NL
    /\ LET h == HashRun(t, i)
       IN  /\ h >= 1 /\ h <= lvl
           /\ i + h + 1 <= LineEnd(t, i)
           /\ t[i + h] \in Whitespace \ {NL}

\* The start indices of the header lines, in document order.
RECURSIVE HeaderLineStarts(_, _, _)
HeaderLineStarts(t, i, lvl) ==
    IF i > Len(t) THEN <<>>
    ELSE (IF IsHeaderLine(t, i, lvl) THEN <<i>> ELSE <<>>)
         \o HeaderLineStarts(t, i + 1, lvl)

\* C25: Hierarchical chunk() emits, in document order, one chunk for the
\* non-blank text before the first header, with section "Introduction",
\* followed by exactly one chunk per header line of level 1..split_level; the
\* text of a header chunk is its header line, a newline and its content, and
\* its section is the text of that header with the marker characters and the
\* surrounding whitespace stripped.
C25_OneChunkPerHeaderLine ==
    (IsHier /\ pc = "done") =>
        LET hs == HeaderLineStarts(text, 1, strategy.split_level)
            n == Len(hs)
            pre == IF n = 0 THEN text ELSE SubSeq(text, 1, hs[1] - 1)
            off == IF Strip(pre) # <<>> THEN 1 ELSE 0
            line(k) == SubSeq(text, hs[k], LineEnd(text, hs[k]))
            content(k) == SubSeq(text, LineEnd(text, hs[k]) + 1,
                                 IF k < n THEN hs[k + 1] - 1 ELSE Len(text))
        IN  /\ Len(chunks) = off + n
            /\ off = 1 =>
                   /\ chunks[1].text = Strip(pre)
                   /\ chunks[1].metadata.section = Introduction
            /\ \A k \in 1..n :
                   /\ chunks[off + k].text =
                          Strip(line(k)) \o <<NL>> \o Strip(content(k))
                   /\ chunks[off + k].metadata.section =
                          Strip(LStripHash(Strip(line(k))))

\* C26: when pages are supplied and the text is the page texts joined by the
\* 2-character separator, every chunk emitted by Hierarchical chunk() carries
\* page_numbers, equal to the pages that intersect the span of the first
\* occurrence of the chunk's text in the full document, and the list is not
\* empty for a chunk whose text lies inside page text.
C26_HierarchicalPageNumbers ==
    (IsHier /\ pc = "done" /\ pages # <<>> /\ text = JoinPages(pages)) =>
        \A k \in 1..Len(chunks) :
            LET first == PyFind(text, chunks[k].text, 0)
                end == first + Len(chunks[k].text)
            IN  /\ first # -1
                /\ "page_numbers" \in DOMAIN chunks[k].metadata
                /\ chunks[k].metadata.page_numbers =
                       ChunkPagesOnce(BuildPageMap(pages), first, end, <<>>)
                /\ chunks[k].metadata.page_numbers # <<>>

\* ------------------------------------------- further claims on Semantic
\* The number of adjacent sentence pairs whose similarity is below threshold.
Breaks == Cardinality({i \in 2..Len(sentences) : PairSimilarity(i) < strategy.threshold})

\* C27: for a text with n >= 2 sentences, Semantic chunk() partitions the
\* sentence sequence into consecutive non-empty groups, in order: the number
\* of chunks is 1 + the number of adjacent pairs with similarity < threshold,
\* the first group starts at the first sentence, every group starts right
\* after the previous one ends, the last group, always emitted, ends at the
\* last sentence, and each chunk's text is its sentences joined by one space.
\* For a non-empty text with fewer than 2 sentences the result is exactly one
\* chunk whose text is the whole input.
C27_SemanticPartition ==
    /\ SemAnswered =>
           LET n == Len(chunks)
           IN  /\ n = 1 + Breaks
               /\ GroupStart(1) = 1
               /\ GroupEnd(n) = Len(sentences)
               /\ \A k \in 1..n :
                      /\ GroupStart(k) <= GroupEnd(k)
                      /\ k < n => GroupStart(k + 1) = GroupEnd(k) + 1
                      /\ chunks[k].text =
                             PyJoin(<<" ">>, [j \in 1..(GroupEnd(k) - GroupStart(k) + 1) |->
                                                 sentences[GroupStart(k) + j - 1]])
    /\ (IsSem /\ pc = "done" /\ text # <<>> /\ Len(SplitSentences(text)) < 2) =>
           /\ Len(chunks) = 1
           /\ chunks[1].text = text

\* Three sentences, a break after the first: the last group holds two.
C27_Witness ==
    /\ SemAnswered
    /\ Len(sentences) = 3
    /\ PairSimilarity(2) < strategy.threshold
    /\ PairSimilarity(3) > strategy.threshold
    /\ Len(chunks) = 2
    /\ chunks[2].text = sentences[2] \o <<" ">> \o sentences[3]

\* ------------------------------------------- further claims on Sentence
\* C29: when the sentence count exceeds sentences_per_chunk, Sentence chunk()
\* covers every sentence by at least one window and emits no window after the
\* first window that contains the last sentence, so no emitted chunk holds
\* only sentences that the chunk before it already holds.
C29_NoRedundantWindow ==
    (IsSent /\ pc = "done" /\ Len(sentences) > strategy.sentences_per_chunk) =>
        /\ \A j \in 1..Len(sentences) :
               \E k \in 1..Len(spans) : spans[k].start < j /\ j <= spans[k].end
        /\ \A k \in 1..Len(spans) :
               spans[k].end = Len(sentences) => k = Len(spans)
        /\ \A k \in 2..Len(spans) : spans[k].end > spans[k - 1].end

====
